---- MODULE Spec2Model ----
(***************************************************************************)
(* Verification model of the ripple telemetry service.                     *)
(*                                                                         *)
(* Part 1: the server's telemetry engine (crates/server/src/analytics.rs,  *)
(* crates/server/src/client.rs): node and edge registry, ingest pipeline,  *)
(* staleness cleanup, removed-id bookkeeping and topology snapshots.       *)
(*                                                                         *)
(* Conventions                                                             *)
(*  - Option<T> is a sequence of length at most one: <<>> is None and      *)
(*    <<v>> is Some(v).                                                    *)
(*  - On the server an Instant is an integer number of ticks, TicksPerSec  *)
(*    ticks to the second, and a Duration is a number of ticks.            *)
(*  - SystemTime::now() is an input of every call that reads it: a number  *)
(*    of microseconds on the scale of UNIX_EPOCH, drawn anew at each call  *)
(*    and not bound to the Instants.                                       *)
(*  - On the client a Duration is the record of its whole seconds and      *)
(*    nanoseconds, and an Instant is the Duration since the client         *)
(*    started.                                                             *)
(*  - A NodeId is the tuple of its 16 bytes, each written as a one         *)
(*    character string.                                                    *)
(*  - A HashMap is a function whose DOMAIN is the set of keys.  Wherever   *)
(*    the code iterates a HashMap or a HashSet and the order of iteration  *)
(*    reaches the state (the order of pushes onto the pending-removed      *)
(*    lists), the operator returns the SET of all states the iteration     *)
(*    orders can produce and the action picks one of them.                 *)
(***************************************************************************)
EXTENDS Integers, Sequences, FiniteSets, TLC

VARIABLES
    nodes,              \* AnalyticsManager.nodes : NodeId -> NodeState
    edges,              \* AnalyticsManager.edges : EdgeKey -> EdgeState
    total_packets,      \* AnalyticsManager.total_packets
    total_bytes,        \* AnalyticsManager.total_bytes
    packets_by_class,   \* AnalyticsManager.packets_by_class [u64; 4]
    bytes_by_class,     \* AnalyticsManager.bytes_by_class [u64; 4]
    route_packets,      \* AnalyticsManager.route_packets [u64; 4]
    route_bytes,        \* AnalyticsManager.route_bytes [u64; 4]
    rate_window_secs,   \* AnalyticsManager.rate_window_secs
    max_nodes,          \* AnalyticsManager.max_nodes
    snapshot_seq,       \* AnalyticsManager.snapshot_seq
    last_topology_epoch_us, \* AnalyticsManager.last_topology_epoch_us
    removed_nodes,      \* AnalyticsManager.removed_nodes_since_last_snapshot
    removed_edges,      \* AnalyticsManager.removed_edges_since_last_snapshot
    clock,              \* the monotonic clock read by the server loop (Instant::now())
    last,               \* the last engine call: its name, arguments and the keys held before it
    out,                \* the value returned by the last engine call (<<>> when it returns nothing)
    gone_nodes,         \* node ids that left the node map since the last topology export
    gone_edges,         \* edge ids that left the edge map since the last topology export
    reported,           \* the ids the topology exports made so far listed as removed
    shown,              \* per edge: the rates last reported for it, and the packets and
                        \* losses on it since the last export
    sent,               \* per live edge: the data packets and bytes sent over it since it was created
    registered,         \* per node: the domains registered since the last export, and the latest
    trackers,           \* NodeState.seq_trackers [SequenceTracker; 4] of a node taken alone
    fed,                \* the last class_seq fed to trackers and the event reported for it
    tally,              \* what was fed to trackers so far, and the losses reported
    rate_calculator,    \* a RateCalculator taken alone, recording a steady stream
    stream,             \* the steady stream: its period, the time, and the last rate reported
    recorder,           \* the calls of record_packet on rate_calculator at any times: the
                        \* time, the time of the latest call, and the number of calls
    client,             \* the ClientState of the traffic generator
    wall,               \* Instant::now() of the client, as the Duration since it started
    turns,              \* the pass of send_continuous_packets under way, if any
    did,                \* the last call on the client: its name, arguments, time, the queue
                        \* before it, and the data packets it sent
    wire,               \* the datagrams under way between the sockets: the data packets
                        \* to the server and the Acks to the client, in the order sent
    packet_count        \* packet_count of the server loop

vars == << nodes, edges, total_packets, total_bytes, packets_by_class,
           bytes_by_class, route_packets, route_bytes, rate_window_secs,
           max_nodes, snapshot_seq, last_topology_epoch_us, removed_nodes,
           removed_edges, clock, last, out, gone_nodes, gone_edges, reported,
           shown, sent, registered, trackers, fed, tally, rate_calculator, stream,
           recorder, client, wall, turns, did, wire, packet_count >>

----------------------------------------------------------------------------
(* Bounds of the model *)

\* the clock runs from 0 to MaxTime ticks
MaxTime == 1
\* at most MaxPeerKeys commands are given to the client where its peers change
MaxPeerKeys == 5
\* at most MaxProfileKeys profiles are started and drained
MaxProfileKeys == 1
\* a profile is drained for MaxProfileSecs seconds
MaxProfileSecs == 12
\* time passes within a pass of a profile after one of its first MaxPassWaits sends
MaxPassWaits == 2
\* the datagrams the server could not decode before it takes the first data
\* packet in the runs over the wire
Undecoded == 998
\* at most MaxPackets data packets are ingested
MaxPackets == 2
\* at most MaxSnapshots topology snapshots are exported
MaxSnapshots == 2
\* max_nodes is any value in 0..MaxNodesCap
MaxNodesCap == 2
\* at most MaxRemoved node ids wait in the pending removed-nodes list
MaxRemoved == 2
\* width in bits of the modelled u32 sequence numbers
SeqWidth == 3
\* at most MaxFeeds sequence numbers are fed to the sequence trackers taken alone
MaxFeeds == 4
\* with gaps in the sequence numbers the clock runs to MaxWindowTime ticks
MaxWindowTime == 2
\* and at most MaxWindowPackets data packets are ingested
MaxWindowPackets == 3
\* a steady stream is followed for MaxStreamTime ticks
MaxStreamTime == 10
\* a steady stream has a packet every 1..MaxPeriod ticks
MaxPeriod == 4
\* the rate calculator taken alone has a window of 1..MaxWindowSecs seconds
MaxWindowSecs == 2
\* the rate calculator recording at any times has a window of 1..MaxBucketWindowSecs seconds
MaxBucketWindowSecs == 3
\* record_packet is called at any times up to MaxRecords times
MaxRecords == 6
\* within MaxRecordTime ticks
MaxRecordTime == 9
\* the client takes up to MaxKeys commands from the keyboard
MaxKeys == 2
\* within MaxWallMs milliseconds
MaxWallMs == 20
\* schedule_burst taken alone is called with a count of 0..MaxBurst
MaxBurst == 2
\* on a queue that stays within MaxQueue entries
MaxQueue == 4
\* at most MaxErrs calls of the client return Err
MaxErrs == 1
\* a send that returns Err is the first of its pass or follows at most MaxOks
\* sends of the pass that returned Ok
MaxOks == 1
\* the bursts of the keyboard are counted in units of BurstUnit packets where
\* the code counts in hundreds: 2 units to begin with, n units after the digit n
BurstUnit == 2

----------------------------------------------------------------------------
(* Program constants and input domains *)

TicksPerSec == 2
\* a silence on the socket of the server, longer than the 60 seconds after
\* which the server loop drops a node
SilenceTicks == 60 * TicksPerSec + 1
UsPerTick == 1000000 \div TicksPerSec
\* u32 sequence numbers are modelled SeqWidth bits wide: arithmetic on them is
\* modulo 2^SeqWidth exactly as the code's is modulo 2^32
U32Modulus == 2 ^ SeqWidth
\* u64::MAX, the "no sample yet" sentinel of LatencyStats.min_rtt_us, is the
\* largest integer of the model
U64Max == 2147483647
\* a reading of the wall clock (microseconds since the Unix epoch): the one the
\* server starts at
EpochStart == 1000000

Internal == "Internal"
External == "External"
NodeDomain == {Internal, External}

\* TrafficClass as its ordinal: Api = 0, HeavyCompute = 1, Background = 2, HealthCheck = 3
TrafficClass == 0..3
Api == 0
HealthCheck == 3

\* the id of the client node, and the id the client synthesises for an external peer
NODE_ALPHA == << "N","O","D","E","-","A","L","P","H","A","-","0","0","0","0","1" >>
PEER_EXT == << "p","e","e","r","e","N","O","D","0","0","0","0","0","0","0","1" >>
NODE_BRAVO == << "N","O","D","E","-","B","R","A","V","O","-","0","0","0","0","2" >>

\* node ids carried by the register and unregister packets of the model
NodeIds == {NODE_ALPHA, PEER_EXT}
\* domains carried by the register packets of the model
RegisterDomains == {External}
\* endpoints of the data packets of the model: the client sends to its peer
SrcInputs == {NODE_ALPHA}
DstInputs == {PEER_EXT}
\* traffic classes carried by the data packets of the model
ClassInputs == {Api, HealthCheck}
\* class_seq values carried by the data packets of the model
ClassSeqInputs == {1}
\* global_seq values carried by the data packets of the model
GlobalSeqInputs == {10}
\* declared_bytes values carried by the data packets of the model
BytesInputs == {1200}
\* desc carried by register packets and by data packets
RegisterDesc == "probe-node------"
DataDesc == "src-node--------"
\* the socket address packets arrive from
Addr == "127.0.0.1:41001"
\* TTLs handed to cleanup_stale, in ticks
TtlInputs == {1}
\* the window the server's rate calculators are built with, in seconds
WindowSecs == 1
\* timestamp_us carried by the data packets: the sender's wall clock is behind
\* the server's, so a latency sample is taken
TimestampInputs == {EpochStart - 100000}

----------------------------------------------------------------------------
(* Helpers *)

Range(s) == {s[i] : i \in DOMAIN s}

\* let x = e; body(x): the value e is computed once and bound to the name
Let(e, body(_)) == CHOOSE r \in {body(x) : x \in {e}} : TRUE

\* all sequences that enumerate the finite set S without repetition
Perms(S) ==
    {p \in [1..Cardinality(S) -> S] : \A i, j \in 1..Cardinality(S) : i # j => p[i] # p[j]}

RECURSIVE SumFn(_, _)
SumFn(f, D) == IF D = {} THEN 0
               ELSE Let(CHOOSE x \in D : TRUE, LAMBDA d : f[d] + SumFn(f, D \ {d}))

Zero4 == [i \in 0..3 |-> 0]

----------------------------------------------------------------------------
(* f64 values are modelled as exact fractions [num, den] in lowest terms   *)
(* with den > 0; rounding of the binary representation is not modelled.    *)

RECURSIVE GCD(_, _)
GCD(a, b) == IF b = 0 THEN a ELSE GCD(b, a % b)

Abs(x) == IF x < 0 THEN -x ELSE x

Frac(n, d) ==
    Let(<< n, d, GCD(Abs(n), Abs(d)) >>, LAMBDA q :
        LET sgn == IF q[2] < 0 THEN -1 ELSE 1
        IN  IF q[1] = 0 THEN [num |-> 0, den |-> 1]
            ELSE [num |-> sgn * (q[1] \div q[3]), den |-> sgn * (q[2] \div q[3])])

F64(n) == Frac(n, 1)
FZero == [num |-> 0, den |-> 1]
FAdd(a, b) == Frac(a.num * b.den + b.num * a.den, a.den * b.den)
FSub(a, b) == Frac(a.num * b.den - b.num * a.den, a.den * b.den)
FMul(a, b) == Frac(a.num * b.num, a.den * b.den)
FAbs(a) == [num |-> Abs(a.num), den |-> a.den]

----------------------------------------------------------------------------
(* crates/server/src/client.rs *)

\* SequenceTracker::default()
SequenceTracker_default ==
    [last_seq |-> << >>, missing_sequences |-> << >>,
     out_of_order_count |-> 0, duplicate_count |-> 0]

LossNone == [kind |-> "None"]
Loss(count) == [kind |-> "Loss", count |-> count]
OutOfOrder == [kind |-> "OutOfOrder"]
Duplicate == [kind |-> "Duplicate"]

\* wrapping_add that does not wrap
unbounded_add(a, b) == a + b

\* u32::wrapping_add
wrapping_add(a, b) == (a + b) % U32Modulus

\* the missing range with its end one too far
MissingSeqRange_through_seq(expected, seq, now) ==
    [start |-> expected, end |-> seq, detected_at |-> now]

\* the MissingSeqRange recorded when seq arrives and expected was due
MissingSeqRange(expected, seq, now) ==
    [start |-> expected, end |-> seq - 1, detected_at |-> now]

\* SequenceTracker::process_sequence: the tracker after the call and the event reported
process_sequence(self, seq, now) ==
    IF self.last_seq = << >>
    THEN [self |-> [self EXCEPT !.last_seq = <<seq>>], event |-> LossNone]
    ELSE LET lastv == self.last_seq[1]
             expected == wrapping_add(lastv, 1)
         IN  IF seq = expected
             THEN [self |-> [self EXCEPT !.last_seq = <<seq>>], event |-> LossNone]
             ELSE IF seq > expected
             THEN [self |-> [self EXCEPT
                                !.missing_sequences =
                                    Append(@, MissingSeqRange(expected, seq, now)),
                                !.last_seq = <<seq>>],
                   event |-> Loss(seq - expected)]
             ELSE IF seq = lastv
             THEN [self |-> [self EXCEPT !.duplicate_count = @ + 1], event |-> Duplicate]
             ELSE [self |-> [self EXCEPT !.out_of_order_count = @ + 1], event |-> OutOfOrder]

\* LatencyStats::new()
LatencyStats_new ==
    [recent_rtts |-> << >>, max_samples |-> 100, min_rtt_us |-> U64Max,
     max_rtt_us |-> 0, sum_rtt_us |-> 0, count |-> 0,
     sum_jitter_us |-> 0, jitter_count |-> 0]

\* LatencyStats::add_rtt_sample
add_rtt_sample(self, rtt_us) ==
    LET n == Len(self.recent_rtts)
        withJitter ==
            IF n > 0
            THEN [self EXCEPT !.sum_jitter_us = @ + Abs(rtt_us - self.recent_rtts[n]),
                              !.jitter_count = @ + 1]
            ELSE self
        pushed == Append(self.recent_rtts, rtt_us)
        kept == IF Len(pushed) > self.max_samples THEN Tail(pushed) ELSE pushed
    IN  [withJitter EXCEPT
            !.recent_rtts = kept,
            !.min_rtt_us = IF rtt_us < @ THEN rtt_us ELSE @,
            !.max_rtt_us = IF rtt_us > @ THEN rtt_us ELSE @,
            !.sum_rtt_us = @ + rtt_us,
            !.count = @ + 1]

\* LatencyStats::mean_rtt_us
mean_rtt_us(self) ==
    IF self.count = 0 THEN FZero ELSE Frac(self.sum_rtt_us, self.count)

\* LatencyStats::mean_jitter_us
mean_jitter_us(self) ==
    IF self.jitter_count = 0 THEN FZero ELSE Frac(self.sum_jitter_us, self.jitter_count)

\* RateCalculator::new
RateCalculator_new(window_secs) ==
    [window_duration |-> window_secs * TicksPerSec, buckets |-> << >>]

\* Instant::duration_since and Instant - Instant: saturating at zero
duration_since(now, earlier) == IF now >= earlier THEN now - earlier ELSE 0

\* left_window that keeps a bucket exactly window_duration old
left_window_before(now, timestamp, window_duration) ==
    duration_since(now, timestamp) > window_duration

\* now - bucket.timestamp >= self.window_duration
left_window(now, timestamp, window_duration) ==
    duration_since(now, timestamp) >= window_duration

\* the while-let loop of record_packet: drop the front buckets that left the window
RECURSIVE pop_expired(_, _, _)
pop_expired(buckets, now, window_duration) ==
    IF buckets # << >> /\ left_window(now, Head(buckets).timestamp, window_duration)
    THEN pop_expired(Tail(buckets), now, window_duration)
    ELSE buckets

\* in_last_second that folds only a call less than half a second after the bucket
in_last_second_half(now, timestamp) ==
    2 * duration_since(now, timestamp) < TicksPerSec

\* now.duration_since(last.timestamp) < Duration::from_secs(1)
in_last_second(now, timestamp) ==
    duration_since(now, timestamp) < TicksPerSec

\* RateCalculator::record_packet
record_packet(self, now, bytes) ==
    Let(pop_expired(self.buckets, now, self.window_duration), LAMBDA kept :
        LET n == Len(kept)
        IN  IF n > 0 /\ in_last_second(now, kept[n].timestamp)
            THEN [self EXCEPT !.buckets =
                     [kept EXCEPT ![n] = [@ EXCEPT !.packets = @ + 1, !.bytes = @ + bytes]]]
            ELSE [self EXCEPT !.buckets =
                     Append(kept, [timestamp |-> now, packets |-> 1, bytes |-> bytes])])

\* RateCalculator::calculate_rate: (pps, bps)
calculate_rate(self, now) ==
    Let({i \in DOMAIN self.buckets :
            ~left_window(now, self.buckets[i].timestamp, self.window_duration)},
        LAMBDA live :
        LET packets == SumFn([i \in live |-> self.buckets[i].packets], live)
            bytes == SumFn([i \in live |-> self.buckets[i].bytes], live)
            window_secs == self.window_duration \div TicksPerSec
        IN  << Frac(packets, window_secs), Frac(bytes, window_secs) >>)


----------------------------------------------------------------------------
(* crates/server/src/analytics.rs *)

\* HashMap::insert / entry().or_insert: f with key k bound to v
Put(f, k, v) == [x \in (DOMAIN f) \cup {k} |-> IF x = k THEN v ELSE f[x]]
\* HashMap::remove for every key of K
Del(f, K) == [x \in (DOMAIN f) \ K |-> f[x]]

\* HashMap::new()
EmptyMap == [x \in {} |-> 0]

\* Instant::now() at AnalyticsManager::new
start_time == 0

\* SystemTime::UNIX_EPOCH on the scale of the wall clock's readings (microseconds)
UNIX_EPOCH == 0

\* readings of SystemTime::now(): the host sets the wall clock, which is not
\* bound to the monotonic clock and may stand still, step back, or be set to a
\* time before the epoch
SystemTimes == {UNIX_EPOCH - 1, EpochStart, EpochStart + UsPerTick}

\* the readings of a wall clock that is held at the time the server starts
\* at, or set to a time before the epoch
HeldSystemTimes == {UNIX_EPOCH - 1, EpochStart}

\* duration_since(UNIX_EPOCH) is an Err for a reading before the epoch, and
\* .expect("System time before UNIX epoch") panics on it
expect_panics(system_time) == system_time < UNIX_EPOCH

\* epoch_timestamp_us() when SystemTime::now() reads system_time, a reading
\* .expect does not panic on
epoch_timestamp_us(system_time) == system_time - UNIX_EPOCH

\* Duration::as_micros
as_micros(d) == d * UsPerTick

\* struct EdgeKey
EdgeKey(src_node_id, dst_node_id, class) ==
    [src_node_id |-> src_node_id, dst_node_id |-> dst_node_id, class |-> class]

\* edge_id_from_key: two SipHash digests of the key.  The digest is a
\* deterministic function of the key and nothing else; the model takes it to
\* be free of collisions on the keys it builds and writes the EdgeId as the
\* tagged triple it was derived from.
edge_id_from_key(key) == << "edge", key.src_node_id, key.dst_node_id, key.class >>

\* infer_domain
infer_domain(node_id) ==
    IF SubSeq(node_id, 1, 4) = << "p", "e", "e", "r" >> /\ node_id[5] = "e"
    THEN External
    ELSE IF SubSeq(node_id, 1, 4) = << "p", "e", "e", "r" >> /\ node_id[5] = "i"
    THEN Internal
    ELSE Internal

\* domain_desc
domain_desc(domain) ==
    IF domain = Internal THEN "internal-node---" ELSE "external-node---"

\* route_index with the two domains in the other order
route_index_by_dst(src_domain, dst_domain) ==
    CASE dst_domain = Internal /\ src_domain = Internal -> 0
      [] dst_domain = Internal /\ src_domain = External -> 1
      [] dst_domain = External /\ src_domain = Internal -> 2
      [] dst_domain = External /\ src_domain = External -> 3

\* route_index
route_index(src_domain, dst_domain) ==
    CASE src_domain = Internal /\ dst_domain = Internal -> 0
      [] src_domain = Internal /\ dst_domain = External -> 1
      [] src_domain = External /\ dst_domain = Internal -> 2
      [] src_domain = External /\ dst_domain = External -> 3

\* NodeState::new
NodeState_new(node_id, desc, domain, addr, now, window_secs) ==
    [node_id |-> node_id, desc |-> desc, domain |-> domain, addr |-> addr,
     first_seen |-> now, last_seen |-> now,
     seq_trackers |-> [i \in 0..3 |-> SequenceTracker_default],
     packets_by_class |-> Zero4, bytes_by_class |-> Zero4,
     route_packets |-> Zero4, route_bytes |-> Zero4,
     latency_stats |-> LatencyStats_new,
     rate_calculators |-> [i \in 0..3 |-> RateCalculator_new(window_secs)]]

\* EdgeState::new
EdgeState_new(key, now, window_secs) ==
    [edge_id |-> edge_id_from_key(key),
     src_node_id |-> key.src_node_id, dst_node_id |-> key.dst_node_id,
     class |-> key.class, last_seen |-> now, packets |-> 0, bytes |-> 0,
     rate_calculator |-> RateCalculator_new(window_secs),
     seq_tracker |-> SequenceTracker_default,
     prev_packets_per_second |-> FZero, prev_bytes_per_second |-> FZero,
     latency_ewma_us |-> FZero, jitter_ewma_us |-> FZero,
     latency_delta_us |-> FZero, last_latency_sample_us |-> << >>,
     window_packets |-> 0, window_missing |-> 0]

\* AnalyticsManager::new
AnalyticsManager_new(window_secs, maxNodes, system_time) ==
    [nodes |-> EmptyMap, edges |-> EmptyMap,
     total_packets |-> 0, total_bytes |-> 0,
     packets_by_class |-> Zero4, bytes_by_class |-> Zero4,
     route_packets |-> Zero4, route_bytes |-> Zero4,
     rate_window_secs |-> window_secs, max_nodes |-> maxNodes,
     snapshot_seq |-> 0, last_topology_epoch_us |-> epoch_timestamp_us(system_time),
     removed_nodes_since_last_snapshot |-> << >>,
     removed_edges_since_last_snapshot |-> << >>]

\* register_rejected with the bound off by one: a full map takes one more node
register_rejected_above_cap(self, node_id) ==
    /\ node_id \notin DOMAIN self.nodes
    /\ Cardinality(DOMAIN self.nodes) > self.max_nodes

\* register_rejected without the membership test: a full map rejects every register
register_rejected_when_full(self, node_id) ==
    Cardinality(DOMAIN self.nodes) >= self.max_nodes

\* the capacity guard of on_node_registered
register_rejected(self, node_id) ==
    /\ node_id \notin DOMAIN self.nodes
    /\ Cardinality(DOMAIN self.nodes) >= self.max_nodes

\* register_node that leaves the domain of a known node as it was
register_node_keeping_domain(node, packet, src, now) ==
    [node EXCEPT !.addr = src, !.desc = packet.desc, !.last_seen = now]

\* what on_node_registered stores in the node it found or created
register_node(node, packet, src, now) ==
    [node EXCEPT !.addr = src, !.desc = packet.desc,
                 !.domain = packet.domain, !.last_seen = now]

\* AnalyticsManager::on_node_registered
on_node_registered(self, packet, src, now) ==
    IF register_rejected(self, packet.node_id)
    THEN self
    ELSE LET node == IF packet.node_id \in DOMAIN self.nodes
                     THEN self.nodes[packet.node_id]
                     ELSE NodeState_new(packet.node_id, packet.desc, packet.domain,
                                        src, now, self.rate_window_secs)
         IN  [self EXCEPT !.nodes =
                 Put(@, packet.node_id, register_node(node, packet, src, now))]

\* ensure_rejected with the bound off by one: a full map takes one more node
ensure_rejected_above_cap(self, node_id) ==
    /\ node_id \notin DOMAIN self.nodes
    /\ Cardinality(DOMAIN self.nodes) > self.max_nodes

\* the capacity guard of ensure_node
ensure_rejected(self, node_id) ==
    /\ node_id \notin DOMAIN self.nodes
    /\ Cardinality(DOMAIN self.nodes) >= self.max_nodes

\* refresh_node that also stores the domain handed to ensure_node
refresh_node_and_domain(node, desc, domain, addr, now, refresh_desc) ==
    [node EXCEPT !.desc = IF refresh_desc THEN desc ELSE @,
                 !.domain = domain, !.addr = addr, !.last_seen = now]

\* what ensure_node stores in the node it found or created
refresh_node(node, desc, domain, addr, now, refresh_desc) ==
    [node EXCEPT !.desc = IF refresh_desc THEN desc ELSE @,
                 !.addr = addr, !.last_seen = now]

\* AnalyticsManager::ensure_node
ensure_node(self, node_id, desc, domain, addr, now, refresh_desc) ==
    IF ensure_rejected(self, node_id)
    THEN self
    ELSE LET node == IF node_id \in DOMAIN self.nodes
                     THEN self.nodes[node_id]
                     ELSE NodeState_new(node_id, desc, domain, addr, now,
                                        self.rate_window_secs)
         IN  [self EXCEPT !.nodes =
                 Put(@, node_id, refresh_node(node, desc, domain, addr, now, refresh_desc))]

\* edges_touching that looks at the source endpoint only
edges_leaving(self, node_id) ==
    {key \in DOMAIN self.edges : self.edges[key].src_node_id = node_id}

\* the filter of remove_node_and_edges: the keys of the edges with an endpoint node_id
edges_touching(self, node_id) ==
    {key \in DOMAIN self.edges :
        self.edges[key].src_node_id = node_id \/ self.edges[key].dst_node_id = node_id}

\* AnalyticsManager::remove_node_and_edges: the states its iteration orders can produce
remove_node_and_edges(self, node_id) ==
    IF node_id \notin DOMAIN self.nodes
    THEN {self}
    ELSE LET to_remove == edges_touching(self, node_id)
             removed_edge_ids == {self.edges[key].edge_id : key \in to_remove}
         IN  {[self EXCEPT
                  !.nodes = Del(@, {node_id}),
                  !.removed_nodes_since_last_snapshot = Append(@, node_id),
                  !.edges = Del(@, to_remove),
                  !.removed_edges_since_last_snapshot = @ \o order]
              : order \in Perms(removed_edge_ids)}

\* AnalyticsManager::on_node_unregistered
on_node_unregistered(self, packet, now) ==
    remove_node_and_edges(self, packet.node_id)


\* update_edge_latency
update_edge_latency(edge, latency_us) ==
    LET LATENCY_ALPHA == [num |-> 1, den |-> 5]
        JITTER_ALPHA == [num |-> 1, den |-> 5]
        One == [num |-> 1, den |-> 1]
        ewma == IF edge.latency_ewma_us = FZero
                THEN latency_us
                ELSE FAdd(FMul(LATENCY_ALPHA, latency_us),
                          FMul(FSub(One, LATENCY_ALPHA), edge.latency_ewma_us))
        jitter_of(jitter_sample) ==
            IF edge.jitter_ewma_us = FZero
            THEN jitter_sample
            ELSE FAdd(FMul(JITTER_ALPHA, jitter_sample),
                      FMul(FSub(One, JITTER_ALPHA), edge.jitter_ewma_us))
        jitter == IF edge.last_latency_sample_us # << >>
                  THEN Let(FAbs(FSub(latency_us, edge.last_latency_sample_us[1])), jitter_of)
                  ELSE edge.jitter_ewma_us
    IN  Let(ewma, LAMBDA e :
            [edge EXCEPT !.latency_ewma_us = e,
                         !.jitter_ewma_us = jitter,
                         !.latency_delta_us = FSub(latency_us, e),
                         !.last_latency_sample_us = << latency_us >>])

\* takes_sample whatever the sender's clock shows
takes_sample_always(server_timestamp_us, timestamp_us) == TRUE

\* if server_timestamp_us >= packet.timestamp_us
takes_sample(server_timestamp_us, timestamp_us) == server_timestamp_us >= timestamp_us

\* edge_entry that starts every packet on a new edge state
edge_entry_anew(self, key, now) == EdgeState_new(key, now, self.rate_window_secs)

\* self.edges.entry(key).or_insert_with(|| EdgeState::new(key, now, self.rate_window_secs))
edge_entry(self, key, now) ==
    IF key \in DOMAIN self.edges
    THEN self.edges[key]
    ELSE EdgeState_new(key, now, self.rate_window_secs)

\* AckPacket that echoes the class sequence number
AckPacket_of_class_seq(packet, server_timestamp_us) ==
    [original_seq |-> packet.class_seq,
     server_timestamp_us |-> server_timestamp_us,
     server_processing_us |-> 0]

\* the AckPacket on_packet_received returns
AckPacket(packet, server_timestamp_us) ==
    [original_seq |-> packet.global_seq,
     server_timestamp_us |-> server_timestamp_us,
     server_processing_us |-> 0]

\* count_packet that leaves the route counters as they are
count_packet_off_route(self, class_idx, route_idx, declared_bytes) ==
    [self EXCEPT
        !.total_packets = @ + 1,
        !.total_bytes = @ + declared_bytes,
        !.packets_by_class[class_idx] = @ + 1,
        !.bytes_by_class[class_idx] = @ + declared_bytes]

\* the global aggregates of on_packet_received
count_packet(self, class_idx, route_idx, declared_bytes) ==
    [self EXCEPT
        !.total_packets = @ + 1,
        !.total_bytes = @ + declared_bytes,
        !.packets_by_class[class_idx] = @ + 1,
        !.bytes_by_class[class_idx] = @ + declared_bytes,
        !.route_packets[route_idx] = @ + 1,
        !.route_bytes[route_idx] = @ + declared_bytes]

\* AnalyticsManager::on_packet_received: the engine after the call and the Ack
\* returned; system_time is the wall clock as the call reads it.  The call
\* reads it after it has counted the packet: when the reading makes it panic,
\* self is the engine it leaves at the panic, and there is no Ack
on_packet_received(self, src, packet, now, system_time) ==
    LET server_timestamp_us == epoch_timestamp_us(system_time)
        src_node_id == packet.src_node_id
        dst_node_id == packet.dst_node_id
        class_idx == packet.class
        key == EdgeKey(src_node_id, dst_node_id, packet.class)
        sampled == /\ ~expect_panics(system_time)
                   /\ takes_sample(server_timestamp_us, packet.timestamp_us)
        latency_us == server_timestamp_us - packet.timestamp_us
        domain_of(s, node_id) == IF node_id \in DOMAIN s.nodes
                                 THEN s.nodes[node_id].domain
                                 ELSE infer_domain(node_id)
    IN  Let(ensure_node(self, src_node_id, packet.desc, infer_domain(src_node_id),
                        src, now, TRUE), LAMBDA s1 :
        Let(ensure_node(s1, dst_node_id, domain_desc(infer_domain(dst_node_id)),
                        infer_domain(dst_node_id), src, now, FALSE), LAMBDA s2 :
        Let(route_index(domain_of(s2, src_node_id), domain_of(s2, dst_node_id)),
            LAMBDA route_idx :
        Let(count_packet(s2, class_idx, route_idx, packet.declared_bytes), LAMBDA s3 :
        \* if let Some(node) = self.nodes.get_mut(&src_node_id)
        Let(IF src_node_id \in DOMAIN s3.nodes
            THEN [s3.nodes EXCEPT ![src_node_id] =
                     [@ EXCEPT
                         !.last_seen = now,
                         !.addr = src,
                         !.desc = packet.desc,
                         !.packets_by_class[class_idx] = @ + 1,
                         !.bytes_by_class[class_idx] = @ + packet.declared_bytes,
                         !.route_packets[route_idx] = @ + 1,
                         !.route_bytes[route_idx] = @ + packet.declared_bytes,
                         !.seq_trackers[class_idx] =
                             process_sequence(@, packet.class_seq, now).self,
                         !.rate_calculators[class_idx] =
                             record_packet(@, now, packet.declared_bytes)]]
            ELSE s3.nodes, LAMBDA nodes4 :
        \* if let Some(node) = self.nodes.get_mut(&dst_node_id)
        Let(IF dst_node_id \in DOMAIN nodes4
            THEN [nodes4 EXCEPT ![dst_node_id] = [@ EXCEPT !.last_seen = now]]
            ELSE nodes4, LAMBDA nodes5 :
        \* self.edges.entry(key).or_insert_with(..)
        Let(edge_entry(s3, key, now), LAMBDA edge0 :
        Let(process_sequence(edge0.seq_tracker, packet.class_seq, now), LAMBDA edge_loss :
        Let([edge0 EXCEPT
                !.last_seen = now,
                !.packets = @ + 1,
                !.bytes = @ + packet.declared_bytes,
                !.window_packets = @ + 1,
                !.rate_calculator = record_packet(@, now, packet.declared_bytes),
                !.seq_tracker = edge_loss.self,
                !.window_missing = IF edge_loss.event.kind = "Loss"
                                   THEN @ + edge_loss.event.count ELSE @], LAMBDA edge1 :
        Let(IF sampled /\ src_node_id \in DOMAIN nodes5
            THEN [nodes5 EXCEPT ![src_node_id] =
                     [@ EXCEPT !.latency_stats = add_rtt_sample(@, latency_us)]]
            ELSE nodes5, LAMBDA nodes6 :
        Let(IF sampled THEN update_edge_latency(edge1, F64(latency_us)) ELSE edge1,
            LAMBDA edge2 :
            [self |-> [s3 EXCEPT !.nodes = nodes6, !.edges = Put(@, key, edge2)],
             ack |-> AckPacket(packet, server_timestamp_us)])))))))))))

\* is_stale that spares what is exactly ttl old
is_older(now, last_seen, ttl) == duration_since(now, last_seen) > ttl

\* the filter of cleanup_stale: now.duration_since(last_seen) >= ttl
is_stale(now, last_seen, ttl) == duration_since(now, last_seen) >= ttl

\* the calls of remove_node_and_edges made by cleanup_stale, in one order
RECURSIVE remove_stale_nodes(_, _)
remove_stale_nodes(self, order) ==
    IF order = << >>
    THEN {self}
    ELSE UNION {remove_stale_nodes(t, Tail(order)) :
                    t \in remove_node_and_edges(self, Head(order))}

\* AnalyticsManager::cleanup_stale: the states its iteration orders can produce
cleanup_stale(self, node_ttl, edge_ttl, now) ==
    LET stale_nodes == {n \in DOMAIN self.nodes :
                           is_stale(now, self.nodes[n].last_seen, node_ttl)}
        after_nodes == UNION {remove_stale_nodes(self, order) : order \in Perms(stale_nodes)}
        stale_edges(t) == {key \in DOMAIN t.edges :
                              is_stale(now, t.edges[key].last_seen, edge_ttl)}
    IN  UNION {
            {[t EXCEPT
                 !.edges = Del(@, stale_edges(t)),
                 !.removed_edges_since_last_snapshot =
                     @ \o [i \in 1..Len(order) |-> t.edges[order[i]].edge_id]]
             : order \in Perms(stale_edges(t))}
            : t \in after_nodes}


\* AnalyticsManager::global_stats
global_stats(self) ==
    [total_packets |-> self.total_packets,
     total_bytes |-> self.total_bytes,
     packets_by_class |-> self.packets_by_class,
     bytes_by_class |-> self.bytes_by_class,
     route_stats |-> [i \in 0..3 |-> [packets |-> self.route_packets[i],
                                      bytes |-> self.route_bytes[i]]],
     unique_clients |-> Cardinality(DOMAIN self.nodes)]

\* total_rate_for_node
total_rate_for_node(node, now) ==
    LET RECURSIVE fold(_)
        fold(i) == IF i < 0 THEN << FZero, FZero >>
                   ELSE Let(<< fold(i - 1), calculate_rate(node.rate_calculators[i], now) >>,
                            LAMBDA q : << FAdd(q[1][1], q[2][1]), FAdd(q[1][2], q[2][2]) >>)
    IN  fold(3)

\* latency_metrics_from_stats
latency_metrics_from_stats(latency_stats) ==
    [min_rtt_us |-> latency_stats.min_rtt_us,
     max_rtt_us |-> latency_stats.max_rtt_us,
     mean_rtt_us |-> mean_rtt_us(latency_stats),
     mean_jitter_us |-> mean_jitter_us(latency_stats),
     samples |-> latency_stats.count]

\* loss_metrics_from_trackers
loss_metrics_from_trackers(seq_trackers) ==
    LET gaps(i) == seq_trackers[i].missing_sequences
        missing(i) == SumFn([g \in DOMAIN gaps(i) |-> gaps(i)[g].end - gaps(i)[g].start + 1],
                            DOMAIN gaps(i))
    IN  [missing_sequences |-> SumFn([i \in 0..3 |-> missing(i)], 0..3),
         out_of_order |-> SumFn([i \in 0..3 |-> seq_trackers[i].out_of_order_count], 0..3),
         duplicates |-> SumFn([i \in 0..3 |-> seq_trackers[i].duplicate_count], 0..3),
         total_gaps |-> SumFn([i \in 0..3 |-> Len(gaps(i))], 0..3)]

\* u64::saturating_add
saturating_add(a, b) == IF a + b > U64Max THEN U64Max ELSE a + b
\* u64::saturating_sub
saturating_sub(a, b) == IF a >= b THEN a - b ELSE 0

\* next_snapshot_seq without the increment
next_snapshot_seq_unchanged(self) == self.snapshot_seq

\* the first statement of export_topology_snapshot
next_snapshot_seq(self) == saturating_add(self.snapshot_seq, 1)

\* take_pending_removed that copies the lists and leaves them in place
clone_pending_removed(self) == self

\* std::mem::take of the two pending-removed lists: the engine they are taken from
take_pending_removed(self) ==
    [self EXCEPT !.removed_nodes_since_last_snapshot = << >>,
                 !.removed_edges_since_last_snapshot = << >>]

\* AnalyticsManager::export_topology_snapshot: the engine after the call and the
\* snapshot returned.  The nodes and edges arrays are written as sets: they hold
\* edge_after that does not store the rates it reported
edge_after_keeping_prev(edge, rate) ==
    [edge EXCEPT !.window_packets = 0, !.window_missing = 0]

\* edge_after that does not zero the window counters
edge_after_keeping_window(edge, rate) ==
    [edge EXCEPT !.prev_packets_per_second = rate[1], !.prev_bytes_per_second = rate[2]]

\* what export_topology_snapshot stores in an edge it has reported with rate
edge_after(edge, rate) ==
    [edge EXCEPT
        !.prev_packets_per_second = rate[1],
        !.prev_bytes_per_second = rate[2],
        !.window_packets = 0,
        !.window_missing = 0]

\* one entry per key of the maps, in the maps' iteration order; system_time is
\* the wall clock as the call reads it.  The call reads it after it has raised
\* snapshot_seq: when the reading makes it panic, self is the engine it leaves
\* at the panic, and there is no snapshot
export_topology_snapshot(self, now, system_time) ==
    LET seq == next_snapshot_seq(self)
        snapshot_timestamp_epoch_us == epoch_timestamp_us(system_time)
        snapshot_interval_us ==
            saturating_sub(snapshot_timestamp_epoch_us, self.last_topology_epoch_us)
        activity_ttl == self.rate_window_secs * 3 * TicksPerSec
        node_snapshot(node, rate) ==
            [node_id |-> node.node_id,
             desc |-> node.desc,
             domain |-> node.domain,
             first_seen_us |-> as_micros(duration_since(node.first_seen, start_time)),
             last_seen_us |-> as_micros(duration_since(node.last_seen, start_time)),
             active |-> duration_since(now, node.last_seen) < activity_ttl,
             total_packets |-> SumFn(node.packets_by_class, 0..3),
             total_bytes |-> SumFn(node.bytes_by_class, 0..3),
             total_pps |-> rate[1],
             total_bps |-> rate[2],
             latency |-> latency_metrics_from_stats(node.latency_stats),
             loss |-> loss_metrics_from_trackers(node.seq_trackers)]
        edge_snapshot(edge, rate) ==
            [edge_id |-> edge.edge_id,
             src_node_id |-> edge.src_node_id,
             dst_node_id |-> edge.dst_node_id,
             class |-> edge.class,
             packets |-> edge.packets,
             bytes |-> edge.bytes,
             packets_per_second |-> rate[1],
             bytes_per_second |-> rate[2],
             delta_packets_per_second |-> FSub(rate[1], edge.prev_packets_per_second),
             delta_bytes_per_second |-> FSub(rate[2], edge.prev_bytes_per_second),
             latency_ewma_us |-> edge.latency_ewma_us,
             latency_delta_us |-> edge.latency_delta_us,
             jitter_ewma_us |-> edge.jitter_ewma_us,
             loss_rate_window |-> IF edge.window_packets = 0 THEN FZero
                                  ELSE Frac(edge.window_missing, edge.window_packets),
             active |-> duration_since(now, edge.last_seen) < activity_ttl]
        \* one pass over the edges: the snapshot entry and the edge left in the map
        pass == {Let(calculate_rate(self.edges[key].rate_calculator, now), LAMBDA rate :
                     [key |-> key,
                      snapshot |-> edge_snapshot(self.edges[key], rate),
                      after |-> edge_after(self.edges[key], rate)])
                 : key \in DOMAIN self.edges}
    IN  IF expect_panics(system_time)
        THEN [self |-> [self EXCEPT !.snapshot_seq = seq], snapshot |-> << >>]
        ELSE
        Let(pass, LAMBDA done :
        Let(take_pending_removed(
                [self EXCEPT
                    !.snapshot_seq = seq,
                    !.last_topology_epoch_us = snapshot_timestamp_epoch_us,
                    !.edges = [key \in DOMAIN self.edges |->
                                  (CHOOSE d \in done : d.key = key).after]]),
            LAMBDA after :
            [self |-> after,
             snapshot |->
                [snapshot_seq |-> seq,
                 snapshot_timestamp_epoch_us |-> snapshot_timestamp_epoch_us,
                 snapshot_interval_us |-> snapshot_interval_us,
                 nodes |-> {Let(total_rate_for_node(self.nodes[n], now),
                                LAMBDA rate : node_snapshot(self.nodes[n], rate))
                            : n \in DOMAIN self.nodes},
                 edges |-> {d.snapshot : d \in done},
                 removed_nodes |-> self.removed_nodes_since_last_snapshot,
                 removed_edges |-> self.removed_edges_since_last_snapshot,
                 global_stats |-> global_stats(after)]]))

\* after_export_snapshot that takes the pending-removed lists
after_export_snapshot_taking(self) ==
    [self EXCEPT !.removed_nodes_since_last_snapshot = << >>,
                 !.removed_edges_since_last_snapshot = << >>]

\* the engine after export_snapshot(&self): the shared borrow leaves it as it is
after_export_snapshot(self) == self

\* AnalyticsManager::export_snapshot: the snapshot returned (the engine is not changed)
export_snapshot(self, now) ==
    LET uptime == as_micros(duration_since(now, start_time))
        client_stats(node) ==
            [node_id |-> node.node_id,
             desc |-> node.desc,
             addr |-> node.addr,
             first_seen_us |-> as_micros(duration_since(node.first_seen, start_time)),
             last_seen_us |-> as_micros(duration_since(node.last_seen, start_time)),
             session_duration_us |->
                 as_micros(duration_since(node.last_seen, node.first_seen)),
             class_stats |->
                 [i \in 0..3 |->
                     Let(calculate_rate(node.rate_calculators[i], now), LAMBDA rate :
                         [packets |-> node.packets_by_class[i],
                          bytes |-> node.bytes_by_class[i],
                          packets_per_second |-> rate[1],
                          bytes_per_second |-> rate[2]])],
             latency |-> latency_metrics_from_stats(node.latency_stats),
             loss |-> loss_metrics_from_trackers(node.seq_trackers),
             route_stats |-> [i \in 0..3 |-> [packets |-> node.route_packets[i],
                                              bytes |-> node.route_bytes[i]]]]
    IN  [snapshot_timestamp_us |-> uptime,
         server_uptime_us |-> uptime,
         global_stats |-> global_stats(self),
         per_client_stats |-> {client_stats(self.nodes[n]) : n \in DOMAIN self.nodes}]


----------------------------------------------------------------------------
(* crates/client/src/transmission.rs and crates/client/src/input.rs: the     *)
(* traffic scheduler of the client.  A Duration is held as the code holds it, *)
(* in whole seconds and nanoseconds; an Instant is the Duration since the     *)
(* client started.  The terminal of the client is left out.                   *)

HeavyCompute == 1
Background == 2

\* the nanoseconds of a second
NANOS_PER_SEC == 1000 * 1000 * 1000

\* Duration::new: the nanoseconds beyond a second are carried into the seconds
Duration_new(secs, nanos) ==
    [secs |-> secs + nanos \div NANOS_PER_SEC, nanos |-> nanos % NANOS_PER_SEC]

\* Duration::ZERO, and the Instant the client starts at
ZERO == Duration_new(0, 0)

\* Duration::MAX
Duration_MAX == Duration_new(U64Max, NANOS_PER_SEC - 1)

\* Duration::from_millis
from_millis(ms) == Duration_new(ms \div 1000, (ms % 1000) * 1000000)

\* Duration::from_secs
from_secs(secs) == Duration_new(secs, 0)

\* Instant + Duration, Duration + Duration
add(a, b) == Duration_new(a.secs + b.secs, a.nanos + b.nanos)

\* Duration * u32, for the products whose nanoseconds stay below 2^31
mul(d, n) == Duration_new(d.secs * n, d.nanos * n)

\* Duration / u32: the seconds left over go to the nanoseconds together with
\* the nanoseconds left over, (extra_secs * NANOS_PER_SEC + extra_nanos) / rhs.
\* The product is taken in two parts, to stay below 2^31:
\* extra_secs * (NANOS_PER_SEC / rhs) and extra_secs * (NANOS_PER_SEC % rhs);
\* for rhs of 1 to 46340 and durations whose seconds are below 2^31
div(d, rhs) ==
    LET secs == d.secs \div rhs
        extra_secs == d.secs % rhs
        nanos == d.nanos \div rhs
        extra_nanos == d.nanos % rhs
    IN  Duration_new(secs,
                     nanos + extra_secs * (NANOS_PER_SEC \div rhs)
                           + (extra_secs * (NANOS_PER_SEC % rhs) + extra_nanos) \div rhs)

\* a < b of two Instants or two Durations
lt(a, b) == a.secs < b.secs \/ (a.secs = b.secs /\ a.nanos < b.nanos)

\* a <= b of two Instants or two Durations
le(a, b) == ~lt(b, a)

\* Instant - Instant, which is zero when the second is the later one
duration_between(later, earlier) ==
    IF lt(later, earlier) THEN ZERO
    ELSE IF later.nanos >= earlier.nanos
    THEN Duration_new(later.secs - earlier.secs, later.nanos - earlier.nanos)
    ELSE Duration_new(later.secs - earlier.secs - 1,
                      later.nanos + NANOS_PER_SEC - earlier.nanos)

\* The rates r of which NANOS_PER_SEC / r lies half-way between two
\* nanoseconds are 2^10 * 5^j.  The f64 1.0 / r is the quotient itself for
\* r = 1024, and is the f64 next to it otherwise: the one above it for the
\* rates of f64_quotient_above, the one below it for those of f64_quotient_below
f64_quotient_above == {5120, 25600, 128000, 640000, 3200000, 400000000, 2000000000}
f64_quotient_below == {16000000, 80000000}

\* interval_from_rate: Duration::from_secs_f64(1.0 / rate.max(1) as f64), for
\* the rates of 0 to 2^31 - 1.  from_secs_f64 rounds its f64 to the nearest
\* nanosecond and a tie to the even one; the f64 is within 2^-53 of the
\* quotient, which is nearer than the quotient is to a tie it does not hit
interval_from_rate(rate) ==
    LET r == IF rate > 1 THEN rate ELSE 1
        nanos == NANOS_PER_SEC \div r
        rest == NANOS_PER_SEC % r
    IN  Duration_new(0, IF rest > r - rest THEN nanos + 1
                        ELSE IF rest < r - rest THEN nanos
                        ELSE IF r \in f64_quotient_above THEN nanos + 1
                        ELSE IF r \in f64_quotient_below THEN nanos
                        ELSE nanos + (nanos % 2))

\* a byte of an id that is not a letter, written as its value
Byte(b) == ToString(b)

\* u64::to_be_bytes, for the values below 2^31
to_be_bytes(n) ==
    << Byte(0), Byte(0), Byte(0), Byte(0),
       Byte((n \div 16777216) % 256), Byte((n \div 65536) % 256),
       Byte((n \div 256) % 256), Byte(n % 256) >>

\* endpoint_domain_from_node_domain
endpoint_domain_from_node_domain(domain) ==
    IF domain = Internal THEN Internal ELSE External

\* node_domain_from_endpoint_domain
node_domain_from_endpoint_domain(domain) ==
    IF domain = Internal THEN Internal ELSE External

\* struct PeerNode
PeerNode(node_id, domain, desc) == [node_id |-> node_id, domain |-> domain, desc |-> desc]

\* b"peer-internal---" and b"peer-external---"
PEER_INTERNAL == << "p","e","e","r","-","i","n","t","e","r","n","a","l","-","-","-" >>
PEER_EXTERNAL == << "p","e","e","r","-","e","x","t","e","r","n","a","l","-","-","-" >>

\* ClientState::new(NODE_ALPHA, _), the fields of the scheduler and of the
\* peers; active_peer_index counts from 0 as in the code
ClientState_new ==
    [node_id |-> NODE_ALPHA,
     dst_domain |-> Internal,
     peers |-> << PeerNode(PEER_INTERNAL, Internal, "peer-int-default"),
                  PeerNode(PEER_EXTERNAL, External, "peer-ext-default") >>,
     active_peer_index |-> 0,
     next_peer_counter |-> 1,
     burst_count |-> 2 * BurstUnit,
     next_global_seq |-> 0,
     next_class_seq |-> [class \in TrafficClass |-> 0],
     queue |-> << >>,
     pending_acks |-> EmptyMap,
     total_acks |-> 0,
     min_rtt |-> Duration_MAX,
     max_rtt |-> ZERO,
     sum_rtt |-> ZERO,
     continuous_state |-> << >>,
     active_profile |-> << >>]

\* struct ScheduledSend
ScheduledSend(at, class, declared_bytes) ==
    [at |-> at, class |-> class, declared_bytes |-> declared_bytes]

\* burst_at that starts a burst one interval late
burst_at_next(now, interval, i) == add(now, mul(interval, i + 1))

\* now + interval * i
burst_at(now, interval, i) == add(now, mul(interval, i))

\* the for loop of schedule_burst, from i on
RECURSIVE push_burst(_, _, _, _, _, _, _)
push_burst(q, i, now, count, interval, class, declared_bytes) ==
    IF i >= count
    THEN q
    ELSE Let(Append(q, ScheduledSend(burst_at(now, interval, i), class, declared_bytes)),
             LAMBDA pushed :
             \* deliberately one binding per iteration
             Let(i + 1, LAMBDA next :
                 push_burst(pushed, next, now, count, interval, class, declared_bytes)))

\* schedule_burst
schedule_burst(q, now, count, interval_ms, class, declared_bytes) ==
    push_burst(q, 0, now, count, from_millis(interval_ms), class, declared_bytes)

\* active_peer
active_peer(state) ==
    IF state.active_peer_index < Len(state.peers)
    THEN << state.peers[state.active_peer_index + 1] >>
    ELSE << >>

\* the format {counter:06}
six_digits(counter) ==
    LET text == ToString(counter)
    IN  IF counter < 10 THEN "00000" \o text
        ELSE IF counter < 100 THEN "0000" \o text
        ELSE IF counter < 1000 THEN "000" \o text
        ELSE IF counter < 10000 THEN "00" \o text
        ELSE IF counter < 100000 THEN "0" \o text
        ELSE text

\* make_peer_desc: the text, which the 16 bytes of the desc hold whole while
\* the counter has six digits
make_peer_desc(domain, counter) ==
    "peer-" \o (IF domain = Internal THEN "int" ELSE "ext") \o "-" \o six_digits(counter)

\* make_peer_id: the id, and the state with the counter moved on
make_peer_id(state, domain) ==
    [id |-> << "p", "e", "e", "r", IF domain = Internal THEN "i" ELSE "e",
               state.node_id[1], state.node_id[2], state.node_id[3] >>
            \o to_be_bytes(state.next_peer_counter),
     state |-> [state EXCEPT !.next_peer_counter = saturating_add(@, 1)]]

\* add_peer_local: the state after it; the peer it returns is the active one
add_peer_local(state, domain) ==
    LET made == make_peer_id(state, domain)
        peer == PeerNode(made.id, node_domain_from_endpoint_domain(domain),
                         make_peer_desc(domain, saturating_sub(made.state.next_peer_counter, 1)))
        peers == Append(made.state.peers, peer)
    IN  [made.state EXCEPT !.peers = peers,
                           !.active_peer_index = saturating_sub(Len(peers), 1),
                           !.dst_domain = domain]

\* Iterator::position over the peers, counted from 0; << >> is None
position(peers, Matches(_)) ==
    LET found == {i \in 1..Len(peers) : Matches(peers[i])}
    IN  IF found = {} THEN << >>
        ELSE << (CHOOSE i \in found : \A j \in found : i <= j) - 1 >>

\* select_first_peer_for_domain: the peer found, if any, and the state after
select_first_peer_for_domain(state, domain) ==
    LET idx == position(state.peers,
                        LAMBDA peer : endpoint_domain_from_node_domain(peer.domain) = domain)
    IN  IF idx = << >>
        THEN [peer |-> << >>, state |-> state]
        ELSE [peer |-> << state.peers[idx[1] + 1] >>,
              state |-> [state EXCEPT !.active_peer_index = idx[1],
                                      !.dst_domain = domain]]

\* destination_peer, the active peer not being of the requested domain
destination_peer_search(state, requested_domain) ==
    LET first == select_first_peer_for_domain(state, requested_domain)
    IN  IF first.peer # << >>
        THEN [peer |-> first.peer[1], state |-> first.state]
        ELSE LET added == add_peer_local(state, requested_domain)
             IN  [peer |-> active_peer(added)[1], state |-> added]

\* destination_peer: the peer, and the state after
destination_peer(state, requested_domain) ==
    IF /\ active_peer(state) # << >>
       /\ endpoint_domain_from_node_domain(active_peer(state)[1].domain) = requested_domain
    THEN [peer |-> active_peer(state)[1], state |-> state]
    ELSE destination_peer_search(state, requested_domain)

\* next_peer_node_id
next_peer_node_id(state) ==
    IF state.peers = << >>
    THEN << >>
    ELSE << state.peers[((state.active_peer_index + 1) % Len(state.peers)) + 1].node_id >>

\* active_peer_node_id
active_peer_node_id(state) ==
    IF active_peer(state) = << >> THEN << >> ELSE << active_peer(state)[1].node_id >>

\* io::Result<()>: Ok(()), or the Err of a write to the socket or to the
\* terminal, which `?` returns from the function at once
Ok == "Ok"
Err == "Err"

\* A function that returns io::Result is given io, the results of its
\* fallible calls in the order of the program, those past the end of io being
\* Ok, and yields the state it leaves and the result it returns.

\* the result of the n-th fallible call
result_of(io, n) == IF n <= Len(io) THEN io[n] ELSE Ok

\* the result of the calls from the n-th on, of which none writes the state
\* after it: the first Err among them
rest(io, n) == IF \E i \in n..Len(io) : io[i] = Err THEN Err ELSE Ok

\* the results of the calls after the first
after_call(io) == IF io = << >> THEN << >> ELSE Tail(io)

\* the first k calls return Ok and the next one returns Err
err_after(k) == [i \in 1..(k + 1) |-> IF i <= k THEN Ok ELSE Err]

\* every call returns Ok
AllOk == << >>

\* the results a function can meet in its first n fallible calls: no call
\* fails, or one does and ends the function
Outcomes(n) == {AllOk} \cup {err_after(k) : k \in 0..(n - 1)}

\* the function wrote the state and returns Ok(())
Done(state) == [state |-> state, result |-> Ok]

\* select_peer; io: render_peer_status
select_peer(state, node_id, io) ==
    LET idx == position(state.peers, LAMBDA peer : peer.node_id = node_id)
    IN  [state |-> IF idx = << >>
                   THEN state
                   ELSE [state EXCEPT !.active_peer_index = idx[1],
                                      !.dst_domain = endpoint_domain_from_node_domain(
                                                         state.peers[idx[1] + 1].domain)],
         result |-> rest(io, 1)]

\* Vec::remove, the index counted from 0
remove(v, index) == SubSeq(v, 1, index) \o SubSeq(v, index + 2, Len(v))

\* the end of remove_active_peer, peers left: the index is clamped and the
\* destination domain follows the active peer
settle_active_peer(state) ==
    LET clamped == IF state.active_peer_index >= Len(state.peers)
                   THEN [state EXCEPT !.active_peer_index = Len(state.peers) - 1]
                   ELSE state
    IN  IF active_peer(clamped) = << >>
        THEN clamped
        ELSE [clamped EXCEPT !.dst_domain =
                  endpoint_domain_from_node_domain(active_peer(clamped)[1].domain)]

\* remove_active_peer; io: render_peer_status when there is no peer, else
\* send_unregister_node, after which the peer is gone from the list whatever
\* the result, then send_register_node of the replacement when the list is
\* empty, then render_peer_status
remove_active_peer(state, io) ==
    IF state.peers = << >>
    THEN [state |-> state, result |-> result_of(io, 1)]
    ELSE LET removed == [state EXCEPT !.peers = remove(@, state.active_peer_index)]
         IN  IF result_of(io, 1) = Err
             THEN [state |-> removed, result |-> Err]
             ELSE [state |-> IF removed.peers = << >>
                             THEN add_peer_local(removed, Internal)
                             ELSE settle_active_peer(removed),
                   result |-> rest(io, 2)]

\* remove_peer; io: that of remove_active_peer, or render_peer_status
remove_peer(state, node_id, io) ==
    LET idx == position(state.peers, LAMBDA peer : peer.node_id = node_id)
    IN  IF idx = << >>
        THEN [state |-> state, result |-> rest(io, 1)]
        ELSE remove_active_peer([state EXCEPT !.active_peer_index = idx[1]], io)

\* add_peer; io: send_register_node, render_peer_status
add_peer(state, domain, io) ==
    [state |-> add_peer_local(state, endpoint_domain_from_node_domain(domain)),
     result |-> rest(io, 1)]

\* select_or_add_peer_for_domain; io: send_register_node when a peer is added,
\* which add_peer_local has made the active one of the domain by then, and
\* render_peer_status
select_or_add_peer_for_domain(state, domain, io) ==
    LET first == select_first_peer_for_domain(state, domain)
        chosen == IF first.peer = << >> THEN add_peer_local(state, domain) ELSE first.state
    IN  [state |-> [chosen EXCEPT !.dst_domain = domain], result |-> rest(io, 1)]

\* the class cursor that stays where it is
next_class_cursor_kept(class_seq) == class_seq

\* class_seq.wrapping_add(1)
next_class_cursor(class_seq) == wrapping_add(class_seq, 1)

\* the data packet send_data_packet makes of the state
DataOf(state, class, declared_bytes, dst_domain) ==
    [src_node_id |-> state.node_id,
     dst_node_id |-> destination_peer(state, dst_domain).peer.node_id,
     global_seq |-> state.next_global_seq,
     class_seq |-> state.next_class_seq[class],
     class |-> class,
     declared_bytes |-> declared_bytes]

\* send_data_packet of which make_data_packet panics: the state it leaves,
\* after destination_peer
send_data_packet_panics(state, dst_domain) == destination_peer(state, dst_domain).state

\* send_data_packet; io: encode_wire_message, socket.send_to.  When both
\* return Ok the packet was sent at send_time, the time of the pending ack,
\* and the cursors move on; an Err returns before any of that, after
\* destination_peer
send_data_packet(state, class, declared_bytes, dst_domain, send_time, io) ==
    LET class_seq == state.next_class_seq[class]
        resolved == destination_peer(state, dst_domain).state
    IN  IF rest(io, 1) = Err
        THEN [state |-> resolved, result |-> Err]
        ELSE [state |-> [resolved EXCEPT
                            !.pending_acks = Put(@, state.next_global_seq, send_time),
                            !.next_global_seq = wrapping_add(@, 1),
                            !.next_class_seq[class] = next_class_cursor(class_seq)],
              result |-> Ok]

\* send_scheduled_packets: the state after the loop, the packets sent and the
\* result; io: the send_data_packet of each iteration, which has popped the
\* front of the queue by then
RECURSIVE send_scheduled_packets(_, _, _, _)
send_scheduled_packets(state, now, packets, io) ==
    IF state.queue # << >> /\ le(Head(state.queue).at, now)
    THEN LET front == Head(state.queue)
         IN  Let(send_data_packet([state EXCEPT !.queue = Tail(@)],
                                  front.class, front.declared_bytes,
                                  state.dst_domain, now, << result_of(io, 1) >>),
                 LAMBDA r :
                 IF r.result = Err
                 THEN [state |-> r.state, sent |-> packets, result |-> Err]
                 ELSE send_scheduled_packets(
                          r.state, now,
                          Append(packets, DataOf(state, front.class, front.declared_bytes,
                                                 state.dst_domain)),
                          after_call(io)))
    ELSE [state |-> state, sent |-> packets, result |-> Ok]

\* VecDeque::clear
clear(q) == << >>

\* clear_profile; io: render_profile_status
clear_profile(state, io) ==
    [state |-> [state EXCEPT !.active_profile = << >>], result |-> rest(io, 1)]

\* execute_command, InputCommand::SendSingle
send_single(state, now) ==
    [state EXCEPT !.queue = schedule_burst(@, now, 1, 10, HealthCheck, 1200)]

\* execute_command, InputCommand::SendBurst
send_burst(state, now) ==
    [state EXCEPT !.queue = schedule_burst(@, now, state.burst_count, 10, Background, 1200)]

\* execute_command, InputCommand::SetBurstCount(n)
set_burst_count(state, n) == [state EXCEPT !.burst_count = n * BurstUnit]

\* execute_command, InputCommand::StartContinuous { class, rate }; io:
\* clear_profile, of which an Err returns before the queue is cleared
start_continuous(state, class, rate, now, io) ==
    LET interval == div(from_secs(1), rate)
        started == [state EXCEPT !.continuous_state =
                       << [class |-> class, next_send_at |-> add(now, interval),
                           interval |-> interval] >>]
        cleared == clear_profile(started, io)
    IN  IF cleared.result = Err
        THEN cleared
        ELSE Done([cleared.state EXCEPT !.queue = clear(@)])

\* execute_command, InputCommand::StopContinuous; io: clear_profile
stop_continuous(state, io) == clear_profile([state EXCEPT !.continuous_state = << >>], io)

\* set_profile_steady; io: render_profile_status
set_profile_steady(state, now, io) ==
    [state |-> [state EXCEPT !.queue = clear(@),
                            !.continuous_state = << >>,
                            !.active_profile =
                                << [kind |-> "Steady", class |-> Api, rate |-> 80,
                                    next_send_at |-> add(now, interval_from_rate(80))] >>],
     result |-> rest(io, 1)]

\* set_profile_burst; io: render_profile_status
set_profile_burst(state, now, io) ==
    [state |-> [state EXCEPT !.active_profile = << >>,
                            !.continuous_state = << >>,
                            !.queue = schedule_burst(@, now, state.burst_count, 2,
                                                     Background, 1200)],
     result |-> rest(io, 1)]

\* set_profile_ramp; io: render_profile_status
set_profile_ramp(state, now, io) ==
    [state |-> [state EXCEPT !.queue = clear(@),
                            !.continuous_state = << >>,
                            !.active_profile =
                                << [kind |-> "Ramp", class |-> HeavyCompute, min_rate |-> 20,
                                    max_rate |-> 220, step |-> 20, current_rate |-> 20,
                                    next_send_at |-> add(now, interval_from_rate(20)),
                                    next_rate_update_at |-> add(now, from_secs(1)),
                                    update_interval |-> from_secs(1)] >>],
     result |-> rest(io, 1)]

\* set_profile_oscillation; io: render_profile_status
set_profile_oscillation(state, now, io) ==
    [state |-> [state EXCEPT !.queue = clear(@),
                            !.continuous_state = << >>,
                            !.active_profile =
                                << [kind |-> "Oscillation", class |-> Api, low_rate |-> 40,
                                    high_rate |-> 240, current_rate |-> 40, rising |-> TRUE,
                                    next_send_at |-> add(now, interval_from_rate(40)),
                                    next_rate_update_at |-> add(now, from_secs(1)),
                                    update_interval |-> from_secs(1)] >>],
     result |-> rest(io, 1)]

\* Instant::now() < next_send_at
not_due(now, next_send_at) == lt(now, next_send_at)

\* one turn of the while loop of send_continuous_packets at the time now:
\* whether it sent, the state after it and, when the turn ends the loop, the
\* result; io: send_data_packet, of which an Err returns before next_send_at
\* is moved
send_continuous_turn(state, now, io) ==
    IF state.continuous_state = << >> \/ not_due(now, state.continuous_state[1].next_send_at)
    THEN [sends |-> FALSE, state |-> state, result |-> Ok]
    ELSE Let(send_data_packet(state, state.continuous_state[1].class, 1200,
                              state.dst_domain, now, io),
             LAMBDA r :
             IF r.result = Err
             THEN [sends |-> FALSE, state |-> r.state, result |-> Err]
             ELSE [sends |-> TRUE,
                   state |-> [r.state EXCEPT !.continuous_state[1].next_send_at =
                                                 add(@, state.continuous_state[1].interval)],
                   result |-> Ok])

\* the rate a tick of the ramp goes to, without the wrap to min_rate
ramp_next_rate_unwrapped(profile) == profile.current_rate + profile.step

\* send_profile_packets, Ramp: the rate a tick goes to
ramp_next_rate(profile) ==
    IF profile.current_rate + profile.step > profile.max_rate
    THEN profile.min_rate
    ELSE profile.current_rate + profile.step

\* the tick of the oscillation that goes to high_rate whatever the flag says
oscillation_next_high(profile) == [rate |-> profile.high_rate, rising |-> FALSE]

\* send_profile_packets, Oscillation: the rate and the flag a tick goes to
oscillation_next(profile) ==
    IF profile.rising
    THEN [rate |-> profile.high_rate, rising |-> FALSE]
    ELSE [rate |-> profile.low_rate, rising |-> TRUE]

\* send_profile_packets: the profile after the rate update of one iteration
update_rate(profile, now) ==
    IF profile.kind = "Ramp" /\ le(profile.next_rate_update_at, now)
    THEN [profile EXCEPT !.current_rate = ramp_next_rate(profile),
                         !.next_rate_update_at = add(@, profile.update_interval)]
    ELSE IF profile.kind = "Oscillation" /\ le(profile.next_rate_update_at, now)
    THEN [profile EXCEPT !.current_rate = oscillation_next(profile).rate,
                         !.rising = oscillation_next(profile).rising,
                         !.next_rate_update_at = add(@, profile.update_interval)]
    ELSE profile

\* send_profile_packets: the rate of the next interval, read from the state
\* after the rate update
next_rate(snapshot, updated) ==
    IF snapshot.kind = "Steady" THEN snapshot.rate ELSE updated.current_rate

\* one iteration of the loop of send_profile_packets at the time now: whether
\* it sent, the state after it and, when the iteration ends the loop, the
\* result; io: send_data_packet, which is called after the rate update and
\* after next_send_at was moved, and of which an Err ends the loop
send_profile_turn(state, now, io) ==
    IF state.active_profile = << >>
    THEN [sends |-> FALSE, state |-> state, result |-> Ok]
    ELSE LET snapshot == state.active_profile[1]
             updated == update_rate(snapshot, now)
         IN  IF le(snapshot.next_send_at, now)
             THEN Let(send_data_packet(
                          [state EXCEPT !.active_profile =
                              << [updated EXCEPT !.next_send_at =
                                     add(@, interval_from_rate(
                                                next_rate(snapshot, updated)))] >>],
                          snapshot.class, 1200, state.dst_domain, now, io),
                      LAMBDA r : [sends |-> r.result = Ok, state |-> r.state,
                                  result |-> r.result])
             ELSE [sends |-> FALSE,
                   state |-> [state EXCEPT !.active_profile = << updated >>],
                   result |-> Ok]


----------------------------------------------------------------------------
(* The engine as a state machine: one action per call of the server loop *)

\* the AnalyticsManager held in the variables
Self ==
    [nodes |-> nodes, edges |-> edges,
     total_packets |-> total_packets, total_bytes |-> total_bytes,
     packets_by_class |-> packets_by_class, bytes_by_class |-> bytes_by_class,
     route_packets |-> route_packets, route_bytes |-> route_bytes,
     rate_window_secs |-> rate_window_secs, max_nodes |-> max_nodes,
     snapshot_seq |-> snapshot_seq, last_topology_epoch_us |-> last_topology_epoch_us,
     removed_nodes_since_last_snapshot |-> removed_nodes,
     removed_edges_since_last_snapshot |-> removed_edges]

\* the call `call` left the engine as `after` and ended as op says: it
\* returned `result`, or it panicked
Ends(after, op, call, result) ==
    /\ last.op # "panic"
    /\ nodes' = after.nodes
    /\ edges' = after.edges
    /\ total_packets' = after.total_packets
    /\ total_bytes' = after.total_bytes
    /\ packets_by_class' = after.packets_by_class
    /\ bytes_by_class' = after.bytes_by_class
    /\ route_packets' = after.route_packets
    /\ route_bytes' = after.route_bytes
    /\ rate_window_secs' = after.rate_window_secs
    /\ max_nodes' = after.max_nodes
    /\ snapshot_seq' = after.snapshot_seq
    /\ last_topology_epoch_us' = after.last_topology_epoch_us
    /\ removed_nodes' = after.removed_nodes_since_last_snapshot
    /\ removed_edges' = after.removed_edges_since_last_snapshot
    /\ last' = [op |-> op, during |-> call.op, pkt |-> call.pkt,
                had_nodes |-> DOMAIN nodes, had_edges |-> DOMAIN edges]
    /\ out' = result
    /\ gone_nodes' = (IF op = "export_topology" THEN {} ELSE gone_nodes)
                        \cup ((DOMAIN nodes) \ (DOMAIN after.nodes))
    /\ gone_edges' = (IF op = "export_topology" THEN {} ELSE gone_edges)
                        \cup {edges[key].edge_id : key \in (DOMAIN edges) \ (DOMAIN after.edges)}
    /\ UNCHANGED clock

\* the call `call` left the engine as `after` and returned `result`
Returns(after, call, result) == Ends(after, call.op, call, result)

\* the call `call` panicked at .expect("System time before UNIX epoch") and
\* left the engine as `at`, with what it had written before it read the wall
\* clock: main unwinds and the process ends, so that no further datagram is
\* taken
Panics(at, call) == Ends(at, "panic", call, << >>)

NoCall == [op |-> "none", during |-> "none", pkt |-> << >>,
           had_nodes |-> {}, had_edges |-> {}]

\* nothing was fed to the sequence trackers taken alone
NoFeed == [n |-> 0, class |-> Api, seq |-> 0, event |-> LossNone]
NoTally == [count |-> [i \in TrafficClass |-> 0],
            prev |-> [i \in TrafficClass |-> << >>],
            steady |-> [i \in TrafficClass |-> TRUE],
            loss_sum |-> 0, loss_events |-> 0]

\* no steady stream is recorded
NoStream == [period |-> 0, now |-> 0, due |-> 0, recorded |-> 0, asked |-> FALSE,
             pps |-> [num |-> 0, den |-> 1]]

\* record_packet was not called at any time of its own
NoRecorder == [now |-> 0, latest |-> 0, recorded |-> 0]

\* no pass of send_continuous_packets is under way, and none was made
NoPass == [running |-> FALSE, first |-> << >>, emitted |-> 0]

\* the client was not called
NoDeed == [op |-> "none", arg |-> << >>, keys |-> 0, at |-> ZERO, had_queue |-> << >>,
           sent |-> << >>, result |-> Ok, errs |-> 0]

\* no datagram is under way
NoWire == [to_server |-> << >>, to_client |-> << >>]

\* the client and the sockets are not exercised
ClientIdle == UNCHANGED << client, wall, turns, did, wire, packet_count >>

\* the parts modelled further down are not exercised
Elsewhere == UNCHANGED << recorder >> /\ ClientIdle

\* the parts taken alone are not exercised
Apart == UNCHANGED << trackers, fed, tally, rate_calculator, stream >> /\ Elsewhere

\* AnalyticsManager::new, ClientState::new and an empty socket on each side
Constructed ==
    /\ \E maxNodes \in 0..MaxNodesCap,
          system_time \in {t \in SystemTimes : ~expect_panics(t)} :
          LET am == AnalyticsManager_new(WindowSecs, maxNodes, system_time)
          IN  /\ nodes = am.nodes
              /\ edges = am.edges
              /\ total_packets = am.total_packets
              /\ total_bytes = am.total_bytes
              /\ packets_by_class = am.packets_by_class
              /\ bytes_by_class = am.bytes_by_class
              /\ route_packets = am.route_packets
              /\ route_bytes = am.route_bytes
              /\ rate_window_secs = am.rate_window_secs
              /\ max_nodes = am.max_nodes
              /\ snapshot_seq = am.snapshot_seq
              /\ last_topology_epoch_us = am.last_topology_epoch_us
              /\ removed_nodes = am.removed_nodes_since_last_snapshot
              /\ removed_edges = am.removed_edges_since_last_snapshot
    /\ clock = start_time
    /\ last = NoCall
    /\ out = << >>
    /\ gone_nodes = {}
    /\ gone_edges = {}
    /\ reported = [nodes |-> {}, edges |-> {}]
    /\ shown = [edge |-> EmptyMap, triple |-> EmptyMap]
    /\ sent = EmptyMap
    /\ registered = EmptyMap
    /\ trackers = [i \in TrafficClass |-> SequenceTracker_default]
    /\ fed = NoFeed
    /\ tally = NoTally
    /\ rate_calculator = RateCalculator_new(WindowSecs)
    /\ stream = NoStream
    /\ recorder = NoRecorder
    /\ client = ClientState_new
    /\ wall = ZERO
    /\ turns = NoPass
    /\ did = NoDeed
    /\ wire = NoWire

\* the server and the client as they start
Init == Constructed /\ packet_count = 0

\* time passes between two datagrams: ticks of it, up to limit
TickBy(ticks, limit) ==
    /\ last.op # "panic"
    /\ clock + ticks <= limit
    /\ clock' = clock + ticks
    /\ UNCHANGED << nodes, edges, total_packets, total_bytes, packets_by_class,
                    bytes_by_class, route_packets, route_bytes, rate_window_secs,
                    max_nodes, snapshot_seq, last_topology_epoch_us, removed_nodes,
                    removed_edges, last, out, gone_nodes, gone_edges >>

TickTo(limit) == TickBy(1, limit)

Tick == TickTo(MaxTime)

\* WireMessage::RegisterNode
OnRegisterFrom(domains, addrs) ==
    \E node_id \in NodeIds, domain \in domains, src \in addrs :
        LET packet == [node_id |-> node_id, desc |-> RegisterDesc, domain |-> domain]
        IN  \E after \in {on_node_registered(Self, packet, src, clock)} :
                Returns(after, [op |-> "on_register", pkt |-> packet], << >>)

OnRegisterOf(domains) == OnRegisterFrom(domains, {Addr})

OnRegister == OnRegisterOf(RegisterDomains)

\* WireMessage::UnregisterNode
OnUnregister ==
    /\ Len(removed_nodes) < MaxRemoved
    /\ \E node_id \in NodeIds :
        LET packet == [node_id |-> node_id]
        IN  \E after \in on_node_unregistered(Self, packet, clock) :
                Returns(after, [op |-> "on_unregister", pkt |-> packet], << >>)

\* WireMessage::Data, for a packet of one of the given classes, destinations,
\* sizes, class sequence numbers and timestamps, while fewer than limit were
\* ingested, the wall clock reading one of system_times
OnDataAt(system_times, classes, dsts, sizes, seqs, stamps, limit) ==
    /\ total_packets < limit
    /\ \E src_node_id \in SrcInputs, dst_node_id \in dsts, class \in classes,
          class_seq \in seqs, global_seq \in GlobalSeqInputs,
          declared_bytes \in sizes, timestamp_us \in stamps :
        LET packet == [src_node_id |-> src_node_id, dst_node_id |-> dst_node_id,
                       global_seq |-> global_seq, class_seq |-> class_seq,
                       class |-> class, timestamp_us |-> timestamp_us,
                       declared_bytes |-> declared_bytes, desc |-> DataDesc]
        IN  \E system_time \in system_times :
                \E r \in {on_packet_received(Self, Addr, packet, clock, system_time)} :
                    IF expect_panics(system_time)
                    THEN Panics(r.self, [op |-> "on_data", pkt |-> packet])
                    ELSE Returns(r.self, [op |-> "on_data", pkt |-> packet], r.ack)

\* WireMessage::Data while the wall clock is held
OnDataAs(classes, dsts, sizes, seqs, stamps, limit) ==
    OnDataAt(HeldSystemTimes, classes, dsts, sizes, seqs, stamps, limit)

\* WireMessage::Data, for a packet of one of the given classes, destinations and sizes
OnDataWith(classes, dsts, sizes) ==
    OnDataAs(classes, dsts, sizes, ClassSeqInputs, TimestampInputs, MaxPackets)

\* WireMessage::Data, for a packet of one of the given classes
OnDataOf(classes) == OnDataWith(classes, DstInputs, BytesInputs)

\* the periodic cleanup of the server loop
CleanupStale ==
    /\ Len(removed_nodes) < MaxRemoved
    /\ \E node_ttl \in TtlInputs, edge_ttl \in TtlInputs :
        \E after \in cleanup_stale(Self, node_ttl, edge_ttl, clock) :
            Returns(after,
                    [op |-> "cleanup_stale",
                     pkt |-> [node_ttl |-> node_ttl, edge_ttl |-> edge_ttl]],
                    << >>)

\* WireMessage::RequestTopology, the wall clock reading one of system_times
ExportTopologyAt(system_times) ==
    /\ snapshot_seq < MaxSnapshots
    /\ \E system_time \in system_times :
          \E r \in {export_topology_snapshot(Self, clock, system_time)} :
              IF expect_panics(system_time)
              THEN Panics(r.self, [op |-> "export_topology", pkt |-> << >>])
              ELSE Returns(r.self, [op |-> "export_topology", pkt |-> << >>],
                           r.snapshot)

\* WireMessage::RequestTopology while the wall clock is held
ExportTopology == ExportTopologyAt(HeldSystemTimes)

\* WireMessage::RequestAnalytics
ExportAnalytics ==
    \E snapshot \in {export_snapshot(Self, clock)}, after \in {after_export_snapshot(Self)} :
        Returns(after, [op |-> "export_analytics", pkt |-> << >>], snapshot)

OnData == OnDataOf(ClassInputs)

\* this step is a call of the engine operation op (a Tick keeps `last` and moves the clock)
Called(op) == last'.op = op /\ clock' = clock

\* this step is a call of the engine operation op, which returned or panicked
Entered(op) == last'.during = op /\ clock' = clock

\* the removed ids listed by the exports are not recorded
Untracked == UNCHANGED << reported, shown, sent, registered >> /\ Apart

\* the removed ids listed by the exports are recorded
Tracked ==
    /\ reported' = IF Called("export_topology")
                   THEN [nodes |-> reported.nodes \cup Range(out'.removed_nodes),
                         edges |-> reported.edges \cup Range(out'.removed_edges)]
                   ELSE reported
    /\ UNCHANGED << shown, sent, registered >>
    /\ Apart

Next ==
    \/ Tick /\ Untracked
    \/ OnRegister /\ Untracked
    \/ OnUnregister /\ Untracked
    \/ OnData /\ Untracked
    \/ CleanupStale /\ Untracked
    \/ ExportTopology /\ Untracked
    \/ ExportAnalytics /\ Untracked

Spec == Init /\ [][Next]_vars

\* the engine fed with data packets of one class, recording what its exports list
NextListed ==
    \/ Tick /\ Tracked
    \/ OnRegister /\ Tracked
    \/ OnUnregister /\ Tracked
    \/ OnDataOf({Api}) /\ Tracked
    \/ CleanupStale /\ Tracked
    \/ ExportTopology /\ Tracked
    \/ ExportAnalytics /\ Tracked

SpecListed == Init /\ [][NextListed]_vars

----------------------------------------------------------------------------
(* Registration with both domains, and traffic with more destinations and   *)
(* sizes, the clock standing still; what was registered and sent is recorded *)

\* destinations and sizes of the data packets
TrafficDsts == {PEER_EXT, NODE_BRAVO}
TrafficSizes == {1000, 2000}

NoTraffic == [packets |-> 0, bytes |-> 0]

\* the registrations that wait for their next export
Registered == IF last.op = "export_topology" THEN EmptyMap ELSE registered

\* the record of what the step just taken registered and sent
Accounted ==
    /\ sent' =
          [key \in DOMAIN edges' |->
              LET base == IF key \in DOMAIN edges THEN sent[key] ELSE NoTraffic
              IN  IF /\ Entered("on_data")
                     /\ key = EdgeKey(last'.pkt.src_node_id, last'.pkt.dst_node_id,
                                      last'.pkt.class)
                  THEN [packets |-> base.packets + 1,
                        bytes |-> base.bytes + last'.pkt.declared_bytes]
                  ELSE base]
    /\ registered' =
          LET kept == [id \in (DOMAIN Registered) \cap (DOMAIN nodes') |-> registered[id]]
              id == last'.pkt.node_id
          IN  IF /\ Called("on_register")
                 /\ ~(id \notin DOMAIN nodes /\ Cardinality(DOMAIN nodes) >= max_nodes)
              THEN Put(kept, id,
                       [all |-> (IF id \in DOMAIN kept THEN kept[id].all ELSE {})
                                   \cup {last'.pkt.domain},
                        latest |-> last'.pkt.domain])
              ELSE kept
    /\ UNCHANGED << reported, shown >>
    /\ Apart

\* nodes registered with either domain, and re-registered
NextRegistered ==
    \/ OnRegisterOf(NodeDomain) /\ Accounted
    \/ OnUnregister /\ Accounted
    \/ OnDataOf({Api}) /\ Accounted
    \/ ExportTopology /\ Accounted

SpecRegistered == Init /\ [][NextRegistered]_vars

\* data packets of two classes and sizes to two destinations
NextTraffic ==
    \/ OnRegister /\ Accounted
    \/ OnUnregister /\ Accounted
    \/ OnDataWith(ClassInputs, TrafficDsts, TrafficSizes) /\ Accounted
    \/ ExportTopology /\ Accounted

SpecTraffic == Init /\ [][NextTraffic]_vars

----------------------------------------------------------------------------
(* Ingest of packets whose sender's clock is behind or ahead of the server's, *)
(* the nodes registering from a socket address of their own, and the wall    *)
(* clock of the server standing still, moving on or stepping back between    *)
(* the calls                                                                  *)

\* the socket address the register packets arrive from
PeerAddr == "127.0.0.1:59090"
\* timestamp_us of a sender whose clock is behind, and of one whose clock is ahead
SkewedTimestamps == {EpochStart - 100000, EpochStart + 5000000}

NextIngest ==
    \/ Tick /\ Untracked
    \/ OnRegisterFrom(RegisterDomains, {PeerAddr}) /\ Untracked
    \/ OnDataAt(SystemTimes, {Api}, DstInputs, BytesInputs, ClassSeqInputs,
                SkewedTimestamps, MaxPackets)
          /\ Untracked
    \/ ExportTopologyAt(SystemTimes) /\ Untracked

SpecIngest == Init /\ [][NextIngest]_vars

----------------------------------------------------------------------------
(* Traffic with gaps in the class sequence numbers over a longer time, and   *)
(* what each topology export reported for an edge                            *)

\* class_seq values with gaps
GapSeqInputs == {1, 2, 4}

NotShown == [pps |-> [num |-> 0, den |-> 1], bps |-> [num |-> 0, den |-> 1],
             packets |-> 0, missing |-> 0]

\* what the step just taken adds to the record base of the edge with this key
ShownNext(key, base) ==
    IF /\ Entered("on_data")
       /\ key = EdgeKey(last'.pkt.src_node_id, last'.pkt.dst_node_id, last'.pkt.class)
    THEN LET tracker == IF key \in DOMAIN edges THEN edges[key].seq_tracker
                        ELSE SequenceTracker_default
             event == process_sequence(tracker, last'.pkt.class_seq, clock).event
         IN  [base EXCEPT
                 !.packets = @ + 1,
                 !.missing = @ + (IF event.kind = "Loss" THEN event.count ELSE 0)]
    ELSE IF Called("export_topology")
    THEN IF \E e \in out'.edges : EdgeKey(e.src_node_id, e.dst_node_id, e.class) = key
         THEN LET e == CHOOSE e \in out'.edges :
                          EdgeKey(e.src_node_id, e.dst_node_id, e.class) = key
              IN  [pps |-> e.packets_per_second, bps |-> e.bytes_per_second,
                   packets |-> 0, missing |-> 0]
         ELSE [base EXCEPT !.packets = 0, !.missing = 0]
    ELSE base

\* the record of what the step just taken reported for the edges, or sent over
\* them: per edge from its creation to its removal, and per (src, dst, class)
\* whatever edges were created and removed for it
Windowed ==
    /\ shown' =
          [edge |-> [key \in DOMAIN edges' |->
                        ShownNext(key, IF key \in DOMAIN edges THEN shown.edge[key]
                                       ELSE NotShown)],
           triple |-> [key \in (DOMAIN shown.triple) \cup (DOMAIN edges') |->
                          ShownNext(key, IF key \in DOMAIN shown.triple
                                         THEN shown.triple[key] ELSE NotShown)]]
    /\ UNCHANGED << reported, sent, registered >>
    /\ Apart

NextWindow ==
    \/ TickTo(MaxWindowTime) /\ Windowed
    \/ OnUnregister /\ Windowed
    \/ OnDataAs({Api}, DstInputs, BytesInputs, GapSeqInputs, TimestampInputs,
                MaxWindowPackets) /\ Windowed
    \/ ExportTopology /\ Windowed

SpecWindow == Init /\ [][NextWindow]_vars

----------------------------------------------------------------------------
(* The sequence trackers of one node taken alone: any class_seq may follow any *)

\* the engine is not called and no time passes
EngineIdle ==
    UNCHANGED << nodes, edges, total_packets, total_bytes, packets_by_class,
                 bytes_by_class, route_packets, route_bytes, rate_window_secs,
                 max_nodes, snapshot_seq, last_topology_epoch_us, removed_nodes,
                 removed_edges, clock, last, out, gone_nodes, gone_edges, reported,
                 shown, sent, registered >>

\* node.seq_trackers[class_idx].process_sequence(packet.class_seq, now)
Feed ==
    /\ fed.n < MaxFeeds
    /\ \E class \in ClassInputs, seq \in 0..(U32Modulus - 1) :
          \E r \in {process_sequence(trackers[class], seq, clock)} :
             /\ trackers' = [trackers EXCEPT ![class] = r.self]
             /\ fed' = [n |-> fed.n + 1, class |-> class, seq |-> seq, event |-> r.event]
             /\ tally' =
                   [count |-> [tally.count EXCEPT ![class] = @ + 1],
                    prev |-> [tally.prev EXCEPT ![class] = << seq >>],
                    steady |-> [tally.steady EXCEPT ![class] =
                                   /\ @
                                   /\ \/ tally.prev[class] = << >>
                                      \/ seq = (tally.prev[class][1] + 1) % U32Modulus],
                    loss_sum |-> tally.loss_sum
                                   + (IF r.event.kind = "Loss" THEN r.event.count ELSE 0),
                    loss_events |-> tally.loss_events
                                   + (IF r.event.kind = "Loss" THEN 1 ELSE 0)]
    /\ EngineIdle
    /\ UNCHANGED << rate_calculator, stream >>
    /\ Elsewhere

InitTracker == Init /\ max_nodes = 0 /\ last_topology_epoch_us = EpochStart

NextTracker == Feed

SpecTracker == InitTracker /\ [][NextTracker]_vars

----------------------------------------------------------------------------
(* A rate calculator taken alone, recording a steady stream: one packet every *)
(* period ticks, the first at tick 0                                          *)

StreamBytes == 1200

\* RateCalculator::new(window_secs), for a stream of one packet per period ticks
StartStream ==
    /\ stream.period = 0
    /\ \E period \in 1..MaxPeriod, window_secs \in 1..MaxWindowSecs :
          /\ rate_calculator' = RateCalculator_new(window_secs)
          /\ stream' = [NoStream EXCEPT !.period = period]
    /\ EngineIdle
    /\ UNCHANGED << trackers, fed, tally >>
    /\ Elsewhere

\* record_packet(now, bytes) for the packet that is due
Record ==
    /\ stream.period > 0
    /\ stream.now = stream.due
    /\ \E after \in {record_packet(rate_calculator, stream.now, StreamBytes)} :
          rate_calculator' = after
    /\ stream' = [stream EXCEPT !.due = @ + stream.period, !.recorded = @ + 1,
                                 !.asked = FALSE]
    /\ EngineIdle
    /\ UNCHANGED << trackers, fed, tally >>
    /\ Elsewhere

\* time passes, never past a packet that is due
Pass ==
    /\ stream.period > 0
    /\ stream.now < stream.due
    /\ stream.now < MaxStreamTime
    /\ stream' = [stream EXCEPT !.now = @ + 1, !.asked = FALSE]
    /\ EngineIdle
    /\ UNCHANGED << trackers, fed, tally, rate_calculator >>
    /\ Elsewhere

\* calculate_rate(now)
Rate ==
    /\ stream.period > 0
    /\ \E rate \in {calculate_rate(rate_calculator, stream.now)} :
          stream' = [stream EXCEPT !.asked = TRUE, !.pps = rate[1]]
    /\ EngineIdle
    /\ UNCHANGED << trackers, fed, tally, rate_calculator >>
    /\ Elsewhere

InitStream == Init /\ max_nodes = 0 /\ last_topology_epoch_us = EpochStart

NextStream == StartStream \/ Record \/ Pass \/ Rate

SpecStream == InitStream /\ [][NextStream]_vars

----------------------------------------------------------------------------
(* A rate calculator taken alone, recording packets at any times: any number *)
(* of ticks may pass between two calls of record_packet, or none             *)

\* RateCalculator::new(window_secs), before anything is recorded
NewCalculator ==
    /\ recorder = NoRecorder
    /\ rate_calculator.buckets = << >>
    /\ \E window_secs \in 1..MaxBucketWindowSecs :
          rate_calculator' = RateCalculator_new(window_secs)
    /\ EngineIdle
    /\ UNCHANGED << trackers, fed, tally, stream, recorder >>
    /\ ClientIdle

\* record_packet(now, bytes) at the present time
RecordNow ==
    /\ recorder.recorded < MaxRecords
    /\ \E after \in {record_packet(rate_calculator, recorder.now, StreamBytes)} :
          rate_calculator' = after
    /\ recorder' = [recorder EXCEPT !.latest = recorder.now, !.recorded = @ + 1]
    /\ EngineIdle
    /\ UNCHANGED << trackers, fed, tally, stream >>
    /\ ClientIdle

\* time passes
Lapse ==
    /\ recorder.now < MaxRecordTime
    /\ recorder' = [recorder EXCEPT !.now = @ + 1]
    /\ EngineIdle
    /\ UNCHANGED << trackers, fed, tally, stream, rate_calculator >>
    /\ ClientIdle

InitBuckets == Init /\ max_nodes = 0 /\ last_topology_epoch_us = EpochStart

NextBuckets == NewCalculator \/ RecordNow \/ Lapse

SpecBuckets == InitBuckets /\ [][NextBuckets]_vars

----------------------------------------------------------------------------
(* The client as a state machine: one action per command of the keyboard,    *)
(* one per draining routine of its loop                                       *)

\* the server and the parts taken alone are not exercised
ServerIdle ==
    /\ EngineIdle
    /\ UNCHANGED << trackers, fed, tally, rate_calculator, stream, recorder >>
    /\ UNCHANGED << wire, packet_count >>

\* the keys that start the continuous mode: 'a', 'h', 'g'
ContinuousKeys ==
    {[class |-> Api, rate |-> 100], [class |-> HeavyCompute, rate |-> 10],
     [class |-> Background, rate |-> 1000]}

\* the digit keys pressed
BurstDigits == {1}

\* the time that passes between two steps of the client, in milliseconds
WaitMs == {5, 20}

\* The result of a fallible call is an input of the action where the function
\* still writes the state, or sends, after the call. An Err of a call that
\* follows the last write of its function (the terminal writes that close
\* select_peer, add_peer, select_or_add_peer_for_domain, stop_continuous, the
\* set_profile_ functions and the Ack arm of receive_acks, the calls of the
\* topology tests after their last data packet, every call of
\* run_topology_removal_test) leaves the state that Ok leaves and differs in
\* the value returned only: the actions take Ok there.

\* the results the first n fallible calls of the next call of the client can
\* meet, MaxErrs calls having returned Err at most
Results(n) == IF did.errs < MaxErrs THEN Outcomes(n) ELSE {AllOk}

\* the number of calls that returned Err, the call that returns result included
errs_with(result) == did.errs + (IF result = Err THEN 1 ELSE 0)

\* execute_command(command) at Instant::now(), between two passes of the
\* loop, as one of at most limit commands: it leaves the state as r.state,
\* has sent packets and returns r.result, and the loop goes on after an Err
CommandWithin(limit, op, arg, r, packets) ==
    /\ did.op # "panic"
    /\ ~turns.running
    /\ did.keys < limit
    /\ client' = r.state
    /\ did' = [op |-> op, arg |-> arg, keys |-> did.keys + 1, at |-> wall,
               had_queue |-> client.queue, sent |-> packets, result |-> r.result,
               errs |-> errs_with(r.result)]
    /\ UNCHANGED << wall, turns >>
    /\ ServerIdle

\* a command that sends nothing by itself, one of at most MaxKeys
Key(op, arg, r) == CommandWithin(MaxKeys, op, arg, r, << >>)

\* the results of the calls from the n-th to the m-th
calls(io, n, m) == [i \in 1..(m - n + 1) |-> result_of(io, n + i - 1)]

\* the state at the head of the topology tests, before their first send
topology_test_start(state) ==
    [state EXCEPT !.queue = clear(@), !.continuous_state = << >>]

\* run_topology_smoke_test: the state after it, the packets sent and the
\* result; io: send_register_self, select_or_add_peer_for_domain,
\* send_data_packet, request_topology, render_topology_status
run_topology_smoke_test(state, now, io) ==
    IF result_of(io, 1) = Err
    THEN [state |-> topology_test_start(state), sent |-> << >>, result |-> Err]
    ELSE Let(select_or_add_peer_for_domain(topology_test_start(state), External,
                                           calls(io, 2, 2)),
             LAMBDA selected :
             IF selected.result = Err
             THEN [state |-> selected.state, sent |-> << >>, result |-> Err]
             ELSE Let(send_data_packet(selected.state, Api, 1200, External, now,
                                       calls(io, 3, 3)),
                      LAMBDA r :
                      IF r.result = Err
                      THEN [state |-> r.state, sent |-> << >>, result |-> Err]
                      ELSE [state |-> r.state,
                            sent |-> << DataOf(selected.state, Api, 1200, External) >>,
                            result |-> rest(io, 4)]))

\* InputCommand::RunTopologySmokeTest
RunTopologySmokeTestWithin(limit) ==
    \E io \in Results(3) :
        \E r \in {run_topology_smoke_test(client, wall, io)} :
            CommandWithin(limit, "RunTopologySmokeTest", << >>, r, r.sent)

\* run_topology_removal_test; io: send_register_self, send_unregister_node,
\* request_topology, render_topology_status
run_topology_removal_test(state, io) ==
    [state |-> topology_test_start(state), result |-> rest(io, 1)]

\* InputCommand::RunTopologyRemovalTest
RunTopologyRemovalTestWithin(limit) ==
    \E r \in {run_topology_removal_test(client, AllOk)} :
        CommandWithin(limit, "RunTopologyRemovalTest", << >>, r, << >>)

\* the for loop of run_topology_mixed_classes_test over the classes left: the
\* state after it, the packets sent and the result; io: the send_data_packet
\* of each class
RECURSIVE send_each_class(_, _, _, _, _)
send_each_class(state, classes, now, packets, io) ==
    IF classes = << >>
    THEN [state |-> state, sent |-> packets, result |-> Ok]
    ELSE Let(send_data_packet(state, Head(classes), 1200, External, now,
                              calls(io, 1, 1)),
             LAMBDA r :
             IF r.result = Err
             THEN [state |-> r.state, sent |-> packets, result |-> Err]
             ELSE send_each_class(r.state, Tail(classes), now,
                                  Append(packets, DataOf(state, Head(classes), 1200,
                                                         External)),
                                  after_call(io)))

\* run_topology_mixed_classes_test: the state after it, the packets sent and
\* the result; io: send_register_self, select_or_add_peer_for_domain, the four
\* send_data_packet, request_topology, render_topology_status
run_topology_mixed_classes_test(state, now, io) ==
    IF result_of(io, 1) = Err
    THEN [state |-> topology_test_start(state), sent |-> << >>, result |-> Err]
    ELSE Let(select_or_add_peer_for_domain(topology_test_start(state), External,
                                           calls(io, 2, 2)),
             LAMBDA selected :
             IF selected.result = Err
             THEN [state |-> selected.state, sent |-> << >>, result |-> Err]
             ELSE Let(send_each_class(selected.state,
                                      << Api, HeavyCompute, Background, HealthCheck >>,
                                      now, << >>, calls(io, 3, 6)),
                      LAMBDA r :
                      IF r.result = Err THEN r
                      ELSE [r EXCEPT !.result = rest(io, 7)]))

\* InputCommand::RunTopologyMixedClassesTest
RunTopologyMixedClassesTestWithin(limit) ==
    \E io \in Results(6) :
        \E r \in {run_topology_mixed_classes_test(client, wall, io)} :
            CommandWithin(limit, "RunTopologyMixedClassesTest", << >>, r, r.sent)

SendSingle ==
    \E after \in {send_single(client, wall)} : Key("SendSingle", << >>, Done(after))

SendBurst ==
    \E after \in {send_burst(client, wall)} : Key("SendBurst", << >>, Done(after))

SetBurstCount ==
    \E n \in BurstDigits :
        \E after \in {set_burst_count(client, n)} : Key("SetBurstCount", n, Done(after))

StartContinuous ==
    \E key \in ContinuousKeys, io \in Results(1) :
        \E r \in {start_continuous(client, key.class, key.rate, wall, io)} :
            Key("StartContinuous", key, r)

StopContinuous ==
    \E r \in {stop_continuous(client, AllOk)} : Key("StopContinuous", << >>, r)

SetProfileSteady ==
    \E r \in {set_profile_steady(client, wall, AllOk)} : Key("SetProfileSteady", << >>, r)

SetProfileBurst ==
    \E r \in {set_profile_burst(client, wall, AllOk)} : Key("SetProfileBurst", << >>, r)

SetProfileRamp ==
    \E r \in {set_profile_ramp(client, wall, AllOk)} : Key("SetProfileRamp", << >>, r)

SetProfileOscillation ==
    \E r \in {set_profile_oscillation(client, wall, AllOk)} :
        Key("SetProfileOscillation", << >>, r)

\* the results the send of the next turn of a pass can meet
SendOutcomes ==
    IF (IF turns.running THEN turns.emitted ELSE 0) <= MaxOks
    THEN Results(1)
    ELSE {AllOk}

\* send_scheduled_packets(state, socket, server_addr, now), of which every
\* send returns Ok, or one of the first MaxOks + 1 returns Err
SendScheduled ==
    /\ ~turns.running
    /\ \E io \in Results(MaxOks + 1) :
          \E r \in {send_scheduled_packets(client, wall, << >>, io)} :
              /\ client' = r.state
              /\ did' = [did EXCEPT !.op = "send_scheduled_packets", !.arg = << >>,
                                    !.at = wall, !.had_queue = client.queue,
                                    !.sent = r.sent, !.result = r.result,
                                    !.errs = errs_with(r.result)]
    /\ UNCHANGED << wall, turns >>
    /\ ServerIdle

\* send_continuous_packets: one turn of its loop, the first of a pass or a
\* later one; each turn reads Instant::now() anew, and the pass ends with the
\* turn that sends nothing
SendContinuous ==
    /\ \E io \in SendOutcomes :
          \E turn \in {send_continuous_turn(client, wall, io)} :
              /\ client' = turn.state
              /\ turns' = [running |-> turn.sends,
                          first |-> IF turns.running THEN turns.first
                                    ELSE client.continuous_state,
                          emitted |-> (IF turns.running THEN turns.emitted ELSE 0)
                                         + (IF turn.sends THEN 1 ELSE 0)]
              /\ did' = [did EXCEPT !.op = "send_continuous_packets", !.arg = << >>,
                                    !.at = wall, !.had_queue = client.queue,
                                    !.sent = (IF turns.running THEN did.sent ELSE << >>)
                                                \o (IF turn.sends
                                                    THEN << DataOf(client,
                                                                   client.continuous_state[1].class,
                                                                   1200, client.dst_domain) >>
                                                    ELSE << >>),
                                    !.result = turn.result,
                                    !.errs = errs_with(turn.result)]
    /\ UNCHANGED wall
    /\ ServerIdle

\* time passes
Wait ==
    /\ \E ms \in WaitMs :
          /\ le(add(wall, from_millis(ms)), from_millis(MaxWallMs))
          /\ wall' = add(wall, from_millis(ms))
    /\ UNCHANGED << client, turns, did >>
    /\ ServerIdle

InitClient == Init /\ max_nodes = 0 /\ last_topology_epoch_us = EpochStart

NextClient ==
    \/ SendSingle
    \/ SendBurst
    \/ SetBurstCount
    \/ StartContinuous
    \/ StopContinuous
    \/ SetProfileSteady
    \/ SetProfileBurst
    \/ SetProfileRamp
    \/ SetProfileOscillation
    \/ RunTopologySmokeTestWithin(MaxKeys)
    \/ RunTopologyRemovalTestWithin(MaxKeys)
    \/ RunTopologyMixedClassesTestWithin(MaxKeys)
    \/ SendScheduled
    \/ SendContinuous
    \/ Wait

SpecClient == InitClient /\ [][NextClient]_vars

----------------------------------------------------------------------------
(* The traffic profiles of the client: one profile is started and the loop   *)
(* drains it as time passes                                                   *)

\* the time that passes between two steps while a profile runs, in milliseconds
ProfileWaitMs == {1500, 3000}

\* execute_command(command), one of at most MaxProfileKeys
ProfileKey(op, r) ==
    /\ ~turns.running
    /\ did.keys < MaxProfileKeys
    /\ client' = r.state
    /\ did' = [op |-> op, arg |-> << >>, keys |-> did.keys + 1, at |-> wall,
               had_queue |-> client.queue, sent |-> << >>, result |-> r.result,
               errs |-> errs_with(r.result)]
    /\ UNCHANGED << wall, turns >>
    /\ ServerIdle

\* InputCommand::SetProfileSteady
StartSteady ==
    \E r \in {set_profile_steady(client, wall, AllOk)} : ProfileKey("SetProfileSteady", r)

\* InputCommand::SetProfileRamp
StartRamp ==
    \E r \in {set_profile_ramp(client, wall, AllOk)} : ProfileKey("SetProfileRamp", r)

\* InputCommand::SetProfileOscillation
StartOscillation ==
    \E r \in {set_profile_oscillation(client, wall, AllOk)} :
        ProfileKey("SetProfileOscillation", r)

\* send_profile_packets: one iteration of its loop, the first of a pass or a
\* later one, at the time the iteration reads; the pass ends with the
\* iteration that sends nothing
SendProfile ==
    /\ \E io \in SendOutcomes :
          \E turn \in {send_profile_turn(client, wall, io)} :
              /\ client' = turn.state
              /\ turns' = [running |-> turn.sends,
                          first |-> IF turns.running THEN turns.first
                                    ELSE client.active_profile,
                          emitted |-> (IF turns.running THEN turns.emitted ELSE 0)
                                         + (IF turn.sends THEN 1 ELSE 0)]
              /\ did' = [did EXCEPT !.op = "send_profile_packets", !.arg = << >>,
                                    !.at = wall, !.had_queue = client.queue,
                                    !.sent = IF turn.sends
                                             THEN << DataOf(client,
                                                            client.active_profile[1].class,
                                                            1200, client.dst_domain) >>
                                             ELSE << >>,
                                    !.result = turn.result,
                                    !.errs = errs_with(turn.result)]
    /\ UNCHANGED wall
    /\ ServerIdle

\* time passes while a profile is active, between two passes of the loop or
\* between two iterations of a pass, of which each reads Instant::now() anew:
\* within a pass, after one of its first MaxPassWaits sends
ProfileWait ==
    /\ client.active_profile # << >>
    /\ turns.running => turns.emitted <= MaxPassWaits
    /\ \E ms \in ProfileWaitMs :
          /\ le(add(wall, from_millis(ms)), from_secs(MaxProfileSecs))
          /\ wall' = add(wall, from_millis(ms))
    /\ UNCHANGED << client, turns, did >>
    /\ ServerIdle

NextProfile ==
    \/ StartSteady
    \/ StartRamp
    \/ StartOscillation
    \/ SendProfile
    \/ ProfileWait

SpecProfile == InitClient /\ [][NextProfile]_vars

----------------------------------------------------------------------------
(* The peers of the client: the commands that add, remove and select them,   *)
(* and the sends that resolve a destination                                  *)

\* execute_command(command), one of at most MaxPeerKeys
Command(op, arg, r, packets) ==
    CommandWithin(MaxPeerKeys, op, arg, r, packets)

\* the node ids a command can carry: one of a peer, or of no peer
PeerIdInputs == {client.peers[i].node_id : i \in 1..Len(client.peers)} \cup {NODE_BRAVO}

\* InputCommand::AddPeer { domain }
AddPeer ==
    \E domain \in NodeDomain :
        \E r \in {add_peer(client, domain, AllOk)} :
            Command("AddPeer", << domain >>, r, << >>)

\* the node id of the command is that of a peer
is_peer(node_id) == \E i \in 1..Len(client.peers) : client.peers[i].node_id = node_id

\* InputCommand::RemovePeer { node_id }, of which send_unregister_node may
\* return Err when the node id is that of a peer
RemovePeer ==
    \E node_id \in PeerIdInputs :
        \E io \in (IF is_peer(node_id) THEN Results(1) ELSE {AllOk}) :
            \E r \in {remove_peer(client, node_id, io)} :
                Command("RemovePeer", << node_id >>, r, << >>)

\* InputCommand::SelectPeer { node_id }
SelectPeer ==
    \E node_id \in PeerIdInputs :
        \E r \in {select_peer(client, node_id, AllOk)} :
            Command("SelectPeer", << node_id >>, r, << >>)

\* InputCommand::SetDestinationDomain(domain)
SetDestinationDomain ==
    \E domain \in NodeDomain :
        \E r \in {select_or_add_peer_for_domain(client, domain, AllOk)} :
            Command("SetDestinationDomain", << domain >>, r, << >>)

\* InputCommand::SendSingle, among the commands of the peers
QueueSingle ==
    \E after \in {send_single(client, wall)} :
        Command("SendSingle", << >>, Done(after), << >>)

\* InputCommand::RunTopologySmokeTest among the commands of the peers
RunTopologySmokeTest == RunTopologySmokeTestWithin(MaxPeerKeys)

\* InputCommand::RunTopologyRemovalTest among the commands of the peers
RunTopologyRemovalTest == RunTopologyRemovalTestWithin(MaxPeerKeys)

\* InputCommand::RunTopologyMixedClassesTest among the commands of the peers
RunTopologyMixedClassesTest == RunTopologyMixedClassesTestWithin(MaxPeerKeys)

NextPeers ==
    \/ AddPeer
    \/ RemovePeer
    \/ SelectPeer
    \/ SetDestinationDomain
    \/ QueueSingle
    \/ RunTopologySmokeTest
    \/ RunTopologyRemovalTest
    \/ RunTopologyMixedClassesTest
    \/ SendScheduled

SpecPeers == InitClient /\ [][NextPeers]_vars

----------------------------------------------------------------------------
(* The client and the server on one wire: every datagram reaches the other   *)
(* side in the order sent, once; each side takes the datagrams one at a time, *)
(* the server reads its clocks anew for each, and the wall clocks are held    *)

\* make_data_packet, as the server decodes it: now_timestamp_us() of the
\* client read system_time
on_wire(data, system_time) ==
    [src_node_id |-> data.src_node_id, dst_node_id |-> data.dst_node_id,
     global_seq |-> data.global_seq, class_seq |-> data.class_seq,
     class |-> data.class, timestamp_us |-> epoch_timestamp_us(system_time),
     declared_bytes |-> data.declared_bytes, desc |-> DataDesc]

\* send_data_packet panicked at .expect("System time before UNIX epoch") of
\* now_timestamp_us and left the state as `at`: the process ends and takes no
\* further command
ClientPanics(at) ==
    /\ client' = at
    /\ did' = [did EXCEPT !.op = "panic"]
    /\ UNCHANGED << wall, turns, wire >>

\* send_scheduled_packets: one iteration of its loop, which finds the front of
\* the queue due and pops it; make_data_packet reads the wall clock, the
\* datagram goes out unless the socket returns Err, and the loop is left
\* running while the send returned Ok and another entry is due
SendOnWire ==
    /\ did.op # "panic"
    /\ client.queue # << >>
    /\ le(Head(client.queue).at, wall)
    /\ \E system_time \in HeldSystemTimes, io \in SendOutcomes :
          IF expect_panics(system_time)
          THEN ClientPanics(send_data_packet_panics([client EXCEPT !.queue = Tail(@)],
                                                    client.dst_domain))
          ELSE LET front == Head(client.queue)
                   data == DataOf(client, front.class, front.declared_bytes,
                                  client.dst_domain)
               IN  \E r \in {send_data_packet([client EXCEPT !.queue = Tail(@)],
                                               front.class, front.declared_bytes,
                                               client.dst_domain, wall, io)} :
                      /\ client' = r.state
                      /\ wire' = IF r.result = Err THEN wire
                                 ELSE [wire EXCEPT !.to_server =
                                          Append(@, on_wire(data, system_time))]
                      /\ turns' = [running |-> /\ r.result = Ok
                                               /\ r.state.queue # << >>
                                               /\ le(Head(r.state.queue).at, wall),
                                   first |-> << >>,
                                   emitted |-> (IF turns.running THEN turns.emitted ELSE 0)
                                                  + (IF r.result = Ok THEN 1 ELSE 0)]
                      /\ did' = [did EXCEPT !.op = "send_scheduled_packets",
                                            !.arg = << >>, !.at = wall,
                                            !.had_queue = client.queue,
                                            !.sent = IF r.result = Ok THEN << data >>
                                                     ELSE << >>,
                                            !.result = r.result,
                                    !.errs = errs_with(r.result)]
                      /\ UNCHANGED wall
    /\ UNCHANGED packet_count
    /\ EngineIdle
    /\ UNCHANGED << trackers, fed, tally, rate_calculator, stream, recorder >>

\* AnalyticsManager::cleanup_stale_clients at Instant::now()
cleanup_stale_clients(self, timeout, now) == cleanup_stale(self, timeout, timeout, now)

\* packet_count % 1000 == 0: the datagram is one after which the loop cleans up
cleanup_due(count) == count % 1000 = 0

\* one turn of the server loop: recv_from takes the next datagram, a
\* WireMessage::Data, the Ack goes back to the sender, and every thousandth
\* datagram is followed by cleanup_stale_clients(Duration::from_secs(60))
Receive ==
    /\ wire.to_server # << >>
    /\ \E system_time \in HeldSystemTimes :
          \E r \in {on_packet_received(Self, Addr, Head(wire.to_server), clock,
                                        system_time)} :
          IF expect_panics(system_time)
          THEN /\ Panics(r.self, [op |-> "on_data", pkt |-> Head(wire.to_server)])
               /\ wire' = [wire EXCEPT !.to_server = Tail(@)]
               /\ UNCHANGED packet_count
          ELSE    /\ \E after \in (IF cleanup_due(packet_count + 1)
                                    THEN cleanup_stale_clients(r.self, 60 * TicksPerSec,
                                                               clock)
                                    ELSE {r.self}) :
                         Returns(after,
                                 [op |-> "on_data", pkt |-> Head(wire.to_server)], r.ack)
                  /\ wire' = [to_server |-> Tail(wire.to_server),
                              to_client |-> Append(wire.to_client, r.ack)]
                  /\ packet_count' = packet_count + 1
    /\ UNCHANGED << client, wall, turns, did >>
    /\ UNCHANGED << reported, shown, sent, registered, trackers, fed, tally,
                    rate_calculator, stream, recorder >>

\* Ord::min and Ord::max of two Durations
min(a, b) == IF lt(b, a) THEN b ELSE a
max(a, b) == IF lt(a, b) THEN b ELSE a

\* receive_acks, WireMessage::Ack(ack) taken at the time now: the state after
\* it, and the result when the iteration ends the loop; io: the writes of the
\* statistics to the terminal, which follow the update of the state
receive_ack(state, ack, now, io) ==
    IF ack.original_seq \in DOMAIN state.pending_acks
    THEN LET rtt == duration_between(now, state.pending_acks[ack.original_seq])
         IN  [state |-> [state EXCEPT !.pending_acks = Del(@, {ack.original_seq}),
                                      !.total_acks = @ + 1,
                                      !.min_rtt = min(@, rtt),
                                      !.max_rtt = max(@, rtt),
                                      !.sum_rtt = add(@, rtt)],
              result |-> rest(io, 1)]
    ELSE Done(state)

\* an Ack that answers no packet of the client
StrayAcks == {[original_seq |-> U32Modulus - 1, server_timestamp_us |-> EpochStart,
               server_processing_us |-> 0]}

\* receive_acks: one iteration of its loop, which takes the next datagram of
\* the socket, an Ack of the server or one that any other host sent
ReceiveAcks ==
    /\ did.op # "panic"
    /\ ~turns.running
    /\ \/ /\ wire.to_client # << >>
          /\ \E r \in {receive_ack(client, Head(wire.to_client), wall, AllOk)} :
                /\ client' = r.state
                /\ did' = [did EXCEPT !.op = "receive_acks",
                                      !.arg = Head(wire.to_client),
                                      !.at = wall, !.had_queue = client.queue,
                                      !.sent = << >>, !.result = r.result]
          /\ wire' = [wire EXCEPT !.to_client = Tail(@)]
       \/ \E ack \in StrayAcks :
             \E r \in {receive_ack(client, ack, wall, AllOk)} :
                 /\ client' = r.state
                 /\ did' = [did EXCEPT !.op = "receive_acks", !.arg = ack,
                                       !.at = wall, !.had_queue = client.queue,
                                       !.sent = << >>, !.result = r.result]
                 /\ UNCHANGED wire
    /\ UNCHANGED << wall, turns, packet_count >>
    /\ EngineIdle
    /\ UNCHANGED << trackers, fed, tally, rate_calculator, stream, recorder >>

\* the server blocks in recv_from for longer than the timeout of
\* cleanup_stale_clients
Silence == TickBy(SilenceTicks, SilenceTicks)

NextWire ==
    \/ SelectPeer
    \/ QueueSingle
    \/ SendOnWire
    \/ Receive
    \/ ReceiveAcks
    \/ Silence /\ Untracked
    \/ ExportTopology /\ Untracked

\* the server has room for the client and a peer, and has counted Undecoded
\* datagrams that decode_message refused
InitWire == Constructed /\ max_nodes = MaxNodesCap /\ packet_count = Undecoded

SpecWire == InitWire /\ [][NextWire]_vars

----------------------------------------------------------------------------
(* schedule_burst taken alone: any count, interval and class, on any queue   *)
(* that earlier calls built                                                   *)

\* the intervals of the bursts, in milliseconds
IntervalInputs == {0, 2, 10}

\* schedule_burst(q, Instant::now(), count, interval_ms, class, declared_bytes)
ScheduleBurst ==
    /\ \E count \in 0..MaxBurst, interval_ms \in IntervalInputs,
          class \in {Background, HealthCheck} :
          /\ Len(client.queue) + count <= MaxQueue
          /\ \E q \in {schedule_burst(client.queue, wall, count, interval_ms, class, 1200)} :
                client' = [client EXCEPT !.queue = q]
          /\ did' = [did EXCEPT !.op = "schedule_burst",
                                !.arg = [count |-> count, interval_ms |-> interval_ms,
                                         class |-> class, declared_bytes |-> 1200],
                                !.at = wall, !.had_queue = client.queue]
    /\ UNCHANGED << wall, turns >>
    /\ ServerIdle

NextBurst == ScheduleBurst \/ Wait

SpecBurst == InitClient /\ [][NextBurst]_vars


----------------------------------------------------------------------------
(* Properties of the telemetry engine *)

\* the fields of the AnalyticsManager
engine == << nodes, edges, total_packets, total_bytes, packets_by_class,
             bytes_by_class, route_packets, route_bytes, rate_window_secs,
             max_nodes, snapshot_seq, last_topology_epoch_us, removed_nodes,
             removed_edges >>

NoDuplicates(s) == \A i, j \in DOMAIN s : i # j => s[i] # s[j]

\* C1: in every reachable state every edge of the edge map has both its
\* src_node_id and its dst_node_id present in the node map.
C1_EdgeEndpointsLive ==
    \A key \in DOMAIN edges :
        /\ edges[key].src_node_id \in DOMAIN nodes
        /\ edges[key].dst_node_id \in DOMAIN nodes

\* C2: an on_data call is all-or-nothing.  If its source or its destination
\* node cannot be created because the node map already holds max_nodes nodes,
\* the call changes no field of the engine; otherwise both endpoints are in
\* the node map after the call, the packet is counted and its edge exists.
C2_IngestAllOrNothing ==
    [][Called("on_data") =>
          LET pkt == last'.pkt
              src_fails == /\ pkt.src_node_id \notin DOMAIN nodes
                           /\ Cardinality(DOMAIN nodes) >= max_nodes
              held == IF src_fails THEN DOMAIN nodes
                      ELSE (DOMAIN nodes) \cup {pkt.src_node_id}
              dst_fails == /\ pkt.dst_node_id \notin held
                           /\ Cardinality(held) >= max_nodes
          IN  IF src_fails \/ dst_fails
              THEN UNCHANGED engine
              ELSE /\ pkt.src_node_id \in DOMAIN nodes'
                   /\ pkt.dst_node_id \in DOMAIN nodes'
                   /\ total_packets' = total_packets + 1
                   /\ EdgeKey(pkt.src_node_id, pkt.dst_node_id, pkt.class) \in DOMAIN edges'
      ]_vars

\* C3 as stated: the first export_topology after a removal lists the removed
\* id, and no later export_topology lists an id that an earlier one listed.
C3_ListedOnceEver ==
    [][Called("export_topology") =>
          /\ gone_nodes \subseteq Range(out'.removed_nodes)
          /\ gone_edges \subseteq Range(out'.removed_edges)
          /\ Range(out'.removed_nodes) \cap reported.nodes = {}
          /\ Range(out'.removed_edges) \cap reported.edges = {}
      ]_vars

\* C3 as amended: every export_topology lists in removed_nodes exactly the node
\* ids, and in removed_edges exactly the edge ids, that were removed since the
\* export before it.  So the first export after a removal lists the id, and a
\* later export lists it again only if the id was re-created and removed again
\* in between.
C3_ListedOncePerRemoval ==
    [][Called("export_topology") =>
          /\ Range(out'.removed_nodes) = gone_nodes
          /\ Range(out'.removed_edges) = gone_edges
      ]_vars

\* a second export that lists nothing, after a first one listed a node and an edge
C3_Witness ==
    /\ last.op = "export_topology"
    /\ out.snapshot_seq = 2
    /\ reported.nodes # {}
    /\ reported.edges # {}
    /\ out.removed_nodes = << >>
    /\ out.removed_edges = << >>

\* C4: when a node of the node map is removed (on_unregister, cleanup_stale),
\* then right after the call no edge has it as src or dst, its id is in the
\* pending removed-nodes list, and the edge_id of every edge that touched it
\* is in the pending removed-edges list.
C4_RemovalCascades ==
    [][\A n \in (DOMAIN nodes) \ (DOMAIN nodes') :
          /\ \A key \in DOMAIN edges' :
                edges'[key].src_node_id # n /\ edges'[key].dst_node_id # n
          /\ n \in Range(removed_nodes')
          /\ \A key \in DOMAIN edges :
                (edges[key].src_node_id = n \/ edges[key].dst_node_id = n)
                    => edges[key].edge_id \in Range(removed_edges')
      ]_vars

\* an on_unregister that removed a node together with two edges
C4_Witness ==
    /\ last.op = "on_unregister"
    /\ last.pkt.node_id \in last.had_nodes
    /\ last.pkt.node_id \notin DOMAIN nodes
    /\ Cardinality(last.had_edges \ DOMAIN edges) = 2
    /\ Len(removed_edges) >= 2

\* C5: the pending removed-nodes list and the pending removed-edges list never
\* hold the same id twice.
C5_NoDuplicatePending ==
    /\ NoDuplicates(removed_nodes)
    /\ NoDuplicates(removed_edges)


\* C6: snapshot_seq starts at 0, every export_topology returns a snapshot_seq
\* one greater than the value before the call (hence than the one the export
\* before it returned), and no other operation changes it.  An export_topology
\* that panics at the wall clock has raised snapshot_seq by one and returns
\* nothing; no export follows it.
C6_SnapshotSeqCountsExports ==
    /\ snapshot_seq = 0
    /\ [][IF Called("export_topology")
          THEN /\ snapshot_seq' = snapshot_seq + 1
               /\ out'.snapshot_seq = snapshot_seq'
          ELSE IF Entered("export_topology")
          THEN /\ snapshot_seq' = snapshot_seq + 1
               /\ out' = << >>
               /\ last'.op = "panic"
          ELSE snapshot_seq' = snapshot_seq
        ]_vars

\* a second export, which returned 2, after data packets were ingested
C6_Witness ==
    /\ last.op = "export_topology"
    /\ out.snapshot_seq = 2
    /\ snapshot_seq = 2
    /\ total_packets > 0

\* C7: the node map never holds more than max_nodes nodes.
C7_NodeCap == Cardinality(DOMAIN nodes) <= max_nodes

\* an on_data at the cap: the node map is full and the packet's destination was not added
C7_Witness ==
    /\ last.op = "on_data"
    /\ max_nodes > 0
    /\ Cardinality(last.had_nodes) = max_nodes
    /\ last.pkt.dst_node_id \notin last.had_nodes
    /\ Cardinality(DOMAIN nodes) = max_nodes

\* C8: the edge map holds at most 4 * |nodes|^2 edges.
C8_EdgeCountBound ==
    Cardinality(DOMAIN edges) <= 4 * Cardinality(DOMAIN nodes) * Cardinality(DOMAIN nodes)

\* C9: an on_register for a node id that is not in the node map, made while
\* the map holds max_nodes nodes or more, changes no field of the engine.
C9_RegisterDroppedAtCap ==
    [][(/\ Called("on_register")
        /\ last'.pkt.node_id \notin DOMAIN nodes
        /\ Cardinality(DOMAIN nodes) >= max_nodes)
          => UNCHANGED engine
      ]_vars

\* an on_register for an unknown id that found a non-empty full map
C9_Witness ==
    /\ last.op = "on_register"
    /\ max_nodes > 0
    /\ last.pkt.node_id \notin last.had_nodes
    /\ Cardinality(last.had_nodes) >= max_nodes
    /\ last.pkt.node_id \notin DOMAIN nodes

\* C10: while the node map holds max_nodes nodes, an on_register for an id of
\* the map sets the node's last_seen, desc, domain and addr, and an on_data
\* whose source and destination are in the map sets the last_seen of both,
\* the source's desc, counts the packet in the global and in the source's
\* counters, runs the source's sequence tracker of the class and counts the
\* packet on its edge.
C10_KnownNodesServedAtCap ==
    [][Cardinality(DOMAIN nodes) = max_nodes =>
          /\ (Called("on_register") /\ last'.pkt.node_id \in DOMAIN nodes) =>
                LET pkt == last'.pkt
                    node == nodes'[pkt.node_id]
                IN  /\ DOMAIN nodes' = DOMAIN nodes
                    /\ node.last_seen = clock
                    /\ node.desc = pkt.desc
                    /\ node.domain = pkt.domain
                    /\ node.addr = Addr
                    /\ node.first_seen = nodes[pkt.node_id].first_seen
          /\ (/\ Called("on_data")
              /\ last'.pkt.src_node_id \in DOMAIN nodes
              /\ last'.pkt.dst_node_id \in DOMAIN nodes) =>
                LET pkt == last'.pkt
                    src == pkt.src_node_id
                    dst == pkt.dst_node_id
                    key == EdgeKey(src, dst, pkt.class)
                    was(field) == IF key \in DOMAIN edges THEN edges[key][field] ELSE 0
                IN  /\ DOMAIN nodes' = DOMAIN nodes
                    /\ nodes'[src].last_seen = clock
                    /\ nodes'[dst].last_seen = clock
                    /\ nodes'[src].desc = pkt.desc
                    /\ nodes'[src].packets_by_class[pkt.class]
                          = nodes[src].packets_by_class[pkt.class] + 1
                    /\ nodes'[src].bytes_by_class[pkt.class]
                          = nodes[src].bytes_by_class[pkt.class] + pkt.declared_bytes
                    /\ SumFn(nodes'[src].route_packets, 0..3)
                          = SumFn(nodes[src].route_packets, 0..3) + 1
                    /\ LET before == nodes[src].seq_trackers[pkt.class]
                           after == nodes'[src].seq_trackers[pkt.class]
                       IN  /\ before.last_seq = << >> => after.last_seq = << pkt.class_seq >>
                           /\ before.last_seq = << pkt.class_seq >> =>
                                 after.duplicate_count = before.duplicate_count + 1
                    /\ total_packets' = total_packets + 1
                    /\ total_bytes' = total_bytes + pkt.declared_bytes
                    /\ key \in DOMAIN edges'
                    /\ edges'[key].packets = was("packets") + 1
                    /\ edges'[key].bytes = was("bytes") + pkt.declared_bytes
                    /\ edges'[key].last_seen = clock
      ]_vars

\* an on_data between two nodes of a full map that counted a second packet on their edge
C10_Witness ==
    /\ last.op = "on_data"
    /\ Cardinality(last.had_nodes) = max_nodes
    /\ last.pkt.src_node_id \in last.had_nodes
    /\ last.pkt.dst_node_id \in last.had_nodes
    /\ EdgeKey(last.pkt.src_node_id, last.pkt.dst_node_id, last.pkt.class) \in last.had_edges
    /\ edges[EdgeKey(last.pkt.src_node_id, last.pkt.dst_node_id, last.pkt.class)].packets = 2

----------------------------------------------------------------------------
(* Properties of the sequence tracker *)

\* this step feeds seq to the tracker of class c, which had seen lastv last
Fed(c, lastv, seq) ==
    /\ fed'.n = fed.n + 1
    /\ fed'.class = c
    /\ fed'.seq = seq
    /\ trackers[c].last_seq = << lastv >>

\* C13: as long as every class_seq fed to a tracker is the one fed before it
\* plus 1 modulo 2^32 (the step from 2^32-1 to 0 included), the tracker's
\* missing_sequences is empty, its duplicate_count and out_of_order_count are
\* 0, and every call reports None.
C13_InOrderStaysClean ==
    [][fed'.n = fed.n + 1 =>
          \A c \in TrafficClass :
             tally'.steady[c] =>
                /\ trackers'[c].missing_sequences = << >>
                /\ trackers'[c].duplicate_count = 0
                /\ trackers'[c].out_of_order_count = 0
                /\ fed'.class = c => fed'.event = LossNone
      ]_vars

\* a tracker fed U32Modulus-2, U32Modulus-1, 0: in order across the wrap
C13_Witness ==
    /\ fed.class = Api
    /\ fed.seq = 0
    /\ tally.count[Api] = 3
    /\ tally.steady[Api]
    /\ trackers[Api].last_seq = << 0 >>

\* C14: when seq is greater than expected = last_seq + 1 mod 2^32 in unsigned
\* order, the tracker appends exactly the range [expected, seq-1], sets
\* last_seq to seq and reports Loss with count = seq - expected; and the loss
\* metrics of the node report missing_sequences equal to the sum of the Loss
\* counts its trackers reported and total_gaps equal to the number of Loss
\* events.
C14_LossRecordsGap ==
    [][fed'.n = fed.n + 1 =>
          /\ \A c \in TrafficClass, lastv, seq \in 0..(U32Modulus - 1) :
                (Fed(c, lastv, seq) /\ seq > (lastv + 1) % U32Modulus) =>
                    /\ trackers'[c].missing_sequences =
                          Append(trackers[c].missing_sequences,
                                 [start |-> (lastv + 1) % U32Modulus, end |-> seq - 1,
                                  detected_at |-> clock])
                    /\ trackers'[c].last_seq = << seq >>
                    /\ fed'.event = Loss(seq - ((lastv + 1) % U32Modulus))
          /\ loss_metrics_from_trackers(trackers').missing_sequences = tally'.loss_sum
          /\ loss_metrics_from_trackers(trackers').total_gaps = tally'.loss_events
      ]_vars

\* class_seq 1, 2, 5, 6: one Loss of 2, metrics missing_sequences = 2 and total_gaps = 1
C14_Witness ==
    /\ tally.count[Api] = 4
    /\ fed.seq = 6
    /\ trackers[Api].missing_sequences = << [start |-> 3, end |-> 4, detected_at |-> clock] >>
    /\ tally.loss_sum = 2
    /\ tally.loss_events = 1
    /\ loss_metrics_from_trackers(trackers).missing_sequences = 2
    /\ loss_metrics_from_trackers(trackers).total_gaps = 1
    /\ loss_metrics_from_trackers(trackers).out_of_order = 0
    /\ loss_metrics_from_trackers(trackers).duplicates = 0

\* C15: whenever the seq fed to a tracker equals its last_seq, whatever value
\* of the 32-bit range last_seq has, the tracker reports Duplicate, adds 1 to
\* duplicate_count and leaves last_seq and missing_sequences unchanged.
C15_DuplicateCounted ==
    [][\A c \in TrafficClass, seq \in 0..(U32Modulus - 1) :
          Fed(c, seq, seq) =>
             /\ fed'.event = Duplicate
             /\ trackers'[c].duplicate_count = trackers[c].duplicate_count + 1
             /\ trackers'[c].last_seq = trackers[c].last_seq
             /\ trackers'[c].missing_sequences = trackers[c].missing_sequences
      ]_vars

\* C16: whenever the seq fed to a tracker is less than its last_seq, the
\* tracker reports OutOfOrder, adds 1 to out_of_order_count and changes
\* neither last_seq nor missing_sequences.
C16_LateCounted ==
    [][\A c \in TrafficClass, lastv, seq \in 0..(U32Modulus - 1) :
          (Fed(c, lastv, seq) /\ seq < lastv) =>
             /\ fed'.event = OutOfOrder
             /\ trackers'[c].out_of_order_count = trackers[c].out_of_order_count + 1
             /\ trackers'[c].last_seq = trackers[c].last_seq
             /\ trackers'[c].missing_sequences = trackers[c].missing_sequences
      ]_vars

----------------------------------------------------------------------------
(* Properties of cleanup, ingest and acknowledgement *)

\* C17: right after cleanup_stale(node_ttl, edge_ttl, now) no remaining node
\* has now - last_seen >= node_ttl and no remaining edge has now - last_seen >=
\* edge_ttl; a node younger than node_ttl is kept; an edge younger than
\* edge_ttl whose endpoints were both kept is kept; and every node id and edge
\* id the call removed is in the pending removed lists, which lose nothing
\* until the next export_topology reports them.
C17_CleanupRemovesStale ==
    [][/\ Called("cleanup_stale") =>
            LET node_ttl == last'.pkt.node_ttl
                edge_ttl == last'.pkt.edge_ttl
            IN  /\ \A n \in DOMAIN nodes' :
                      ~(duration_since(clock, nodes'[n].last_seen) >= node_ttl)
                /\ \A key \in DOMAIN edges' :
                      ~(duration_since(clock, edges'[key].last_seen) >= edge_ttl)
                /\ \A n \in DOMAIN nodes :
                      duration_since(clock, nodes[n].last_seen) < node_ttl
                          => n \in DOMAIN nodes' /\ nodes'[n] = nodes[n]
                /\ \A key \in DOMAIN edges :
                      (/\ duration_since(clock, edges[key].last_seen) < edge_ttl
                       /\ key.src_node_id \in DOMAIN nodes'
                       /\ key.dst_node_id \in DOMAIN nodes')
                          => key \in DOMAIN edges' /\ edges'[key] = edges[key]
                /\ (DOMAIN nodes) \ (DOMAIN nodes') \subseteq Range(removed_nodes')
                /\ {edges[key].edge_id : key \in (DOMAIN edges) \ (DOMAIN edges')}
                      \subseteq Range(removed_edges')
       /\ IF Called("export_topology")
          THEN /\ Range(removed_nodes) \subseteq Range(out'.removed_nodes)
               /\ Range(removed_edges) \subseteq Range(out'.removed_edges)
          ELSE /\ Range(removed_nodes) \subseteq Range(removed_nodes')
               /\ Range(removed_edges) \subseteq Range(removed_edges')
      ]_vars

\* a cleanup_stale that removed a stale node with its edge and kept a younger node
C17_Witness ==
    /\ last.op = "cleanup_stale"
    /\ \E n \in last.had_nodes \ DOMAIN nodes : n \in Range(removed_nodes)
    /\ \E n \in last.had_nodes \cap DOMAIN nodes :
          duration_since(clock, nodes[n].last_seen) < last.pkt.node_ttl
    /\ last.had_edges \ DOMAIN edges # {}
    /\ removed_edges # << >>

\* C18: an on_data never changes the domain of a node that is in the node map,
\* whatever infer_domain returns for its id; the domain of a node changes only
\* in an on_register for that node id.
C18_DomainSetByRegisterOnly ==
    [][\A n \in (DOMAIN nodes) \cap (DOMAIN nodes') :
          nodes'[n].domain # nodes[n].domain =>
             /\ ~Called("on_data")
             /\ Called("on_register")
             /\ last'.pkt.node_id = n
      ]_vars

\* an on_data from a node registered External whose id infers Internal
C18_Witness ==
    /\ last.op = "on_data"
    /\ last.pkt.src_node_id \in last.had_nodes
    /\ last.pkt.src_node_id \in DOMAIN nodes
    /\ infer_domain(last.pkt.src_node_id) = Internal
    /\ nodes[last.pkt.src_node_id].domain = External
    /\ nodes[last.pkt.src_node_id].packets_by_class[last.pkt.class] > 0

\* C19: every on_data returns an ack whose original_seq is the global_seq of
\* the packet and whose server_processing_us is 0, also when the source or the
\* destination node could not be created.
C19_AckEchoesGlobalSeq ==
    [][Called("on_data") =>
          /\ out'.original_seq = last'.pkt.global_seq
          /\ out'.server_processing_us = 0
      ]_vars

\* an on_data acknowledged although neither endpoint could be created
C19_Witness ==
    /\ last.op = "on_data"
    /\ last.pkt.src_node_id \notin DOMAIN nodes
    /\ last.pkt.dst_node_id \notin DOMAIN nodes
    /\ out.original_seq = last.pkt.global_seq
    /\ out.server_processing_us = 0

----------------------------------------------------------------------------
(* Properties of registration and of the edge counters *)

\* the entries of the topology snapshot for a node id
NodeEntries(snapshot, id) == {e \in snapshot.nodes : e.node_id = id}

\* C11 as stated: after an on_register(pkt) that capacity did not reject, the
\* next export_topology, the node not being removed in between, has exactly
\* one node entry with pkt's node_id, and it carries pkt's domain.
C11_ExportCarriesRegisteredDomain ==
    [][Called("export_topology") =>
          \A id \in DOMAIN Registered :
             /\ Cardinality(NodeEntries(out', id)) = 1
             /\ \A e \in NodeEntries(out', id), d \in registered[id].all : e.domain = d
      ]_vars

\* C11 amended: after an on_register(pkt) that capacity did not reject, the
\* next export_topology, the node not being removed in between, has exactly
\* one node entry with pkt's node_id, and it carries the domain of the latest
\* such on_register for that id.
C11_ExportCarriesLatestDomain ==
    [][Called("export_topology") =>
          \A id \in DOMAIN Registered :
             /\ Cardinality(NodeEntries(out', id)) = 1
             /\ \A e \in NodeEntries(out', id) : e.domain = registered[id].latest
      ]_vars

\* an export right after a node was registered External and then Internal
C11_Witness ==
    /\ last.op = "export_topology"
    /\ NODE_ALPHA \in DOMAIN registered
    /\ registered[NODE_ALPHA].all = {External, Internal}
    /\ registered[NODE_ALPHA].latest = Internal
    /\ \E e \in out.nodes : e.node_id = NODE_ALPHA /\ e.domain = Internal
    /\ Cardinality(DOMAIN nodes) = 2

\* C12: every live edge (src, dst, class) has packets equal to the number of
\* on_data calls with exactly that triple since the edge was created and bytes
\* equal to the sum of their declared_bytes; a packet of another class or
\* destination is not counted; distinct triples have distinct edges.
C12_EdgeCountsItsTriple ==
    /\ DOMAIN sent = DOMAIN edges
    /\ \A key \in DOMAIN edges :
          /\ edges[key].packets = sent[key].packets
          /\ edges[key].bytes = sent[key].bytes
          /\ EdgeKey(edges[key].src_node_id, edges[key].dst_node_id, edges[key].class) = key
    /\ \A k1, k2 \in DOMAIN edges : k1 # k2 => edges[k1].edge_id # edges[k2].edge_id

\* two packets of different sizes over one edge, and then one to another destination
C12_Witness ==
    /\ last.op = "on_data"
    /\ \E key \in DOMAIN edges :
          /\ key.dst_node_id = PEER_EXT
          /\ edges[key].packets = 2
          /\ edges[key].bytes = 3000
    /\ total_packets = 2

----------------------------------------------------------------------------
(* Properties of the rate calculator *)

\* the window of the rate calculator in seconds
W == rate_calculator.window_duration \div TicksPerSec

\* a rate was just reported for a stream recorded for at least W seconds
SteadyRate ==
    /\ stream.asked
    /\ stream.now >= rate_calculator.window_duration

\* C20 as stated: for a stream recorded at a constant r packets per second
\* (one packet every period ticks, r = TicksPerSec / period) for at least W
\* seconds, the rate reported at any time during the stream is a pps within
\* [r*(W-1)/W, r].
C20_RateWithinBounds ==
    SteadyRate =>
       /\ stream.pps.num * stream.period * W >= TicksPerSec * (W - 1) * stream.pps.den
       /\ stream.pps.num * stream.period <= TicksPerSec * stream.pps.den

\* C20 amended: under the same conditions the rate reported is pps = n / W
\* for a whole number n of packets with floor(r*(W-1)) <= n <= ceil(r*W);
\* these are the stated bounds when r*(W-1) and r*W are whole numbers.
C20_RateWithinWholeBounds ==
    SteadyRate =>
       \E n \in 0..(MaxStreamTime + 1) :
          /\ stream.pps.num * W = n * stream.pps.den
          /\ n >= (TicksPerSec * (W - 1)) \div stream.period
          /\ n <= (TicksPerSec * W + stream.period - 1) \div stream.period

\* a rate strictly inside the bounds: 3 packets counted in a window of 2 seconds
\* of a stream of 2 packets per second
C20_Witness ==
    /\ SteadyRate
    /\ stream.period = 1
    /\ W = 2
    /\ stream.pps.num * 2 = 3 * stream.pps.den
    /\ stream.recorded >= 5

----------------------------------------------------------------------------
(* Properties of the route counters *)

\* 1 for External, 0 for Internal
is_external(domain) == IF domain = External THEN 1 ELSE 0

\* the domain of a node right after the step: the one it has in the node map,
\* or the one inferred from its id when it is not in the map
DomainAfter(node_id) ==
    IF node_id \in DOMAIN nodes' THEN nodes'[node_id].domain ELSE infer_domain(node_id)

\* this step is an on_data that counted the packet on route idx, globally and
\* in the source node
CountedOnRoute(idx) ==
    LET src == last'.pkt.src_node_id
        size == last'.pkt.declared_bytes
        before == IF src \in DOMAIN nodes
                  THEN nodes[src]
                  ELSE [route_packets |-> Zero4, route_bytes |-> Zero4]
    IN  /\ route_packets' = [route_packets EXCEPT ![idx] = @ + 1]
        /\ route_bytes' = [route_bytes EXCEPT ![idx] = @ + size]
        /\ src \in DOMAIN nodes' =>
              /\ nodes'[src].route_packets = [before.route_packets EXCEPT ![idx] = @ + 1]
              /\ nodes'[src].route_bytes = [before.route_bytes EXCEPT ![idx] = @ + size]

\* C27 as stated: for every data packet the route index used for the global
\* and the per-node route counters is 2*dst_is_external + src_is_external, the
\* flags being the domains of the source and the destination node of the packet.
C27_RouteIndexByDst ==
    [][Called("on_data") =>
          CountedOnRoute(2 * is_external(DomainAfter(last'.pkt.dst_node_id))
                           + is_external(DomainAfter(last'.pkt.src_node_id)))
      ]_vars

\* C27 amended: for every data packet the route index used for the global and
\* the per-node route counters is 2*src_is_external + dst_is_external, which
\* gives the order Int->Int, Int->Ext, Ext->Int, Ext->Ext.
C27_RouteIndexBySrc ==
    [][Called("on_data") =>
          CountedOnRoute(2 * is_external(DomainAfter(last'.pkt.src_node_id))
                           + is_external(DomainAfter(last'.pkt.dst_node_id)))
      ]_vars

\* a packet from a node registered External to a node registered Internal,
\* counted on route 2
C27_Witness ==
    /\ last.op = "on_data"
    /\ last.pkt.src_node_id \in DOMAIN nodes
    /\ last.pkt.dst_node_id \in DOMAIN nodes
    /\ nodes[last.pkt.src_node_id].domain = External
    /\ nodes[last.pkt.dst_node_id].domain = Internal
    /\ route_packets[2] = 1
    /\ nodes[last.pkt.src_node_id].route_packets[2] = 1
    /\ total_packets = 1

----------------------------------------------------------------------------
(* Properties of ingest under clock skew and of the destination node *)

\* the edge the packet of this on_data step travels, as it was before the step
EdgeBefore ==
    LET key == EdgeKey(last'.pkt.src_node_id, last'.pkt.dst_node_id, last'.pkt.class)
    IN  IF key \in DOMAIN edges THEN edges[key]
        ELSE EdgeState_new(key, clock, rate_window_secs)

\* the edge the packet of this on_data step travels, after the step
EdgeAfter ==
    edges'[EdgeKey(last'.pkt.src_node_id, last'.pkt.dst_node_id, last'.pkt.class)]

\* C22: when the timestamp_us of a data packet is greater than the server's
\* wall clock at ingest, on_data records no latency sample: the latency
\* accumulator of the source node and latency_ewma_us, jitter_ewma_us,
\* latency_delta_us and the last latency sample of the edge are unchanged,
\* while the packet counters, the rate and the sequence state are updated and
\* an Ack is returned.
C22_NoSampleWhenSenderAhead ==
    [][(Called("on_data") /\ last'.pkt.timestamp_us > out'.server_timestamp_us) =>
          LET src == last'.pkt.src_node_id
              size == last'.pkt.declared_bytes
          IN  /\ src \in DOMAIN nodes' =>
                    /\ nodes'[src].latency_stats =
                          (IF src \in DOMAIN nodes THEN nodes[src].latency_stats
                           ELSE LatencyStats_new)
                    /\ SumFn(nodes'[src].packets_by_class, 0..3) =
                          (IF src \in DOMAIN nodes
                           THEN SumFn(nodes[src].packets_by_class, 0..3) ELSE 0) + 1
                    /\ nodes'[src].seq_trackers[last'.pkt.class].last_seq # << >>
                    /\ nodes'[src].rate_calculators[last'.pkt.class].buckets # << >>
              /\ EdgeAfter.latency_ewma_us = EdgeBefore.latency_ewma_us
              /\ EdgeAfter.jitter_ewma_us = EdgeBefore.jitter_ewma_us
              /\ EdgeAfter.latency_delta_us = EdgeBefore.latency_delta_us
              /\ EdgeAfter.last_latency_sample_us = EdgeBefore.last_latency_sample_us
              /\ EdgeAfter.packets = EdgeBefore.packets + 1
              /\ EdgeAfter.bytes = EdgeBefore.bytes + size
              /\ EdgeAfter.window_packets = EdgeBefore.window_packets + 1
              /\ EdgeAfter.seq_tracker =
                    process_sequence(EdgeBefore.seq_tracker, last'.pkt.class_seq, clock).self
              /\ EdgeAfter.rate_calculator =
                    record_packet(EdgeBefore.rate_calculator, clock, size)
              /\ total_packets' = total_packets + 1
              /\ total_bytes' = total_bytes + size
              /\ out'.original_seq = last'.pkt.global_seq
      ]_vars

\* a packet of a sender whose clock is ahead, after one that was sampled
C22_Witness ==
    /\ last.op = "on_data"
    /\ last.pkt.timestamp_us > out.server_timestamp_us
    /\ total_packets = 2
    /\ last.pkt.src_node_id \in DOMAIN nodes
    /\ nodes[last.pkt.src_node_id].latency_stats.count = 1
    /\ \E key \in DOMAIN edges :
          /\ edges[key].packets = 2
          /\ edges[key].last_latency_sample_us # << >>

\* C28: on_data changes nothing of a destination node that exists already
\* (dst different from src) but its last_seen: desc, domain, addr, first_seen,
\* counters, sequence trackers, latency accumulator and rate calculators are
\* unchanged.
C28_DstOnlySeen ==
    [][(/\ Called("on_data")
        /\ last'.pkt.dst_node_id # last'.pkt.src_node_id
        /\ last'.pkt.dst_node_id \in DOMAIN nodes) =>
          /\ last'.pkt.dst_node_id \in DOMAIN nodes'
          /\ nodes'[last'.pkt.dst_node_id] =
                [nodes[last'.pkt.dst_node_id] EXCEPT !.last_seen = clock]
      ]_vars

----------------------------------------------------------------------------
(* Properties of the per-edge figures of the topology snapshot *)

\* the key of the edge a snapshot entry describes
KeyOf(e) == EdgeKey(e.src_node_id, e.dst_node_id, e.class)

\* C23 as stated: in each export_topology the delta_pps and delta_bps reported
\* for an edge (src, dst, class) are its pps and bps in this snapshot minus the
\* pps and bps reported for it in the previous snapshot that contained it, and
\* minus 0 in its first snapshot.
C23_DeltaAgainstPreviousSnapshot ==
    [][Called("export_topology") =>
          /\ {KeyOf(e) : e \in out'.edges} = DOMAIN edges
          /\ \A e \in out'.edges :
                /\ e.delta_packets_per_second =
                      FSub(e.packets_per_second, shown.triple[KeyOf(e)].pps)
                /\ e.delta_bytes_per_second =
                      FSub(e.bytes_per_second, shown.triple[KeyOf(e)].bps)
      ]_vars

\* C23 amended: in each export_topology the delta_pps and delta_bps reported
\* for an edge are its pps and bps in this snapshot minus the pps and bps
\* reported for it in the previous snapshot made since the edge was created,
\* and minus 0 when there is none: an edge created anew after a removal starts
\* from 0.
C23_DeltaSinceCreation ==
    [][Called("export_topology") =>
          /\ {KeyOf(e) : e \in out'.edges} = DOMAIN edges
          /\ \A e \in out'.edges :
                /\ e.delta_packets_per_second =
                      FSub(e.packets_per_second, shown.edge[KeyOf(e)].pps)
                /\ e.delta_bytes_per_second =
                      FSub(e.bytes_per_second, shown.edge[KeyOf(e)].bps)
      ]_vars

\* a second snapshot of an edge whose rate went up since the first: delta_pps > 0
\* and less than pps
C23_Witness ==
    /\ last.op = "export_topology"
    /\ snapshot_seq = 2
    /\ \E e \in out.edges :
          /\ e.delta_packets_per_second.num > 0
          /\ e.delta_packets_per_second # e.packets_per_second
          /\ e.delta_bytes_per_second # e.bytes_per_second

\* C29 as stated: each export_topology reports for every edge (src, dst, class)
\* loss_rate_window = (sum of the Loss counts on it since the previous export)
\* / (packets on it since the previous export), or 0 when there were no
\* packets, and zeroes both window counters.
C29_LossRateOfWindow ==
    [][Called("export_topology") =>
          /\ {KeyOf(e) : e \in out'.edges} = DOMAIN edges
          /\ \A e \in out'.edges :
                e.loss_rate_window =
                    IF shown.triple[KeyOf(e)].packets = 0 THEN [num |-> 0, den |-> 1]
                    ELSE Frac(shown.triple[KeyOf(e)].missing, shown.triple[KeyOf(e)].packets)
          /\ \A key \in DOMAIN edges' :
                edges'[key].window_packets = 0 /\ edges'[key].window_missing = 0
      ]_vars

\* C29 amended: each export_topology reports for every edge loss_rate_window =
\* (sum of the Loss counts on it since the previous export, or since the edge
\* was created if that was later) / (packets on it since then), or 0 when
\* there were no packets, and zeroes both window counters, so that no packet
\* and no loss is counted in two snapshots.
C29_LossRateOfEdgeWindow ==
    [][Called("export_topology") =>
          /\ {KeyOf(e) : e \in out'.edges} = DOMAIN edges
          /\ \A e \in out'.edges :
                e.loss_rate_window =
                    IF shown.edge[KeyOf(e)].packets = 0 THEN [num |-> 0, den |-> 1]
                    ELSE Frac(shown.edge[KeyOf(e)].missing, shown.edge[KeyOf(e)].packets)
          /\ \A key \in DOMAIN edges' :
                edges'[key].window_packets = 0 /\ edges'[key].window_missing = 0
      ]_vars

\* a second snapshot with loss rate 2/1 (class_seq 4 after 1, alone in its
\* window) after a first snapshot that counted one packet without loss
C29_Witness ==
    /\ last.op = "export_topology"
    /\ snapshot_seq = 2
    /\ \E e \in out.edges :
          /\ e.loss_rate_window = [num |-> 2, den |-> 1]
          /\ e.packets = 2


----------------------------------------------------------------------------
(* The buckets of a rate calculator *)

\* the window of the calculator recording at any times, in seconds
BucketWindow == rate_calculator.window_duration \div TicksPerSec

\* C21: after any sequence of record_packet(now, bytes) calls with
\* non-decreasing now, a rate calculator with a window of W seconds holds at
\* most W buckets: every bucket's timestamp is less than W seconds older than
\* the latest call, and the timestamps of consecutive buckets are at least
\* one second apart.
C21_BucketsWithinWindow ==
    LET buckets == rate_calculator.buckets
    IN  recorder.recorded > 0 =>
           /\ Len(buckets) <= BucketWindow
           /\ \A i \in DOMAIN buckets :
                  /\ buckets[i].timestamp <= recorder.latest
                  /\ recorder.latest - buckets[i].timestamp < BucketWindow * TicksPerSec
           /\ \A i \in DOMAIN buckets :
                  i > 1 => buckets[i].timestamp - buckets[i - 1].timestamp >= TicksPerSec

\* a calculator with a window of 3 seconds is full: it holds 3 buckets, after
\* an older bucket left the window and calls were folded into a bucket
C21_Witness ==
    /\ BucketWindow = 3
    /\ Len(rate_calculator.buckets) = 3
    /\ rate_calculator.buckets[1].timestamp > 0
    /\ rate_calculator.buckets[1].packets > 1
    /\ recorder.latest = recorder.now

----------------------------------------------------------------------------
(* Properties of the traffic scheduler of the client *)

\* the entries schedule_burst is to append for count, interval_ms, class and
\* declared_bytes at the time now
BurstOf(now, count, interval_ms, class, declared_bytes) ==
    [i \in 1..count |-> [at |-> add(now, from_millis((i - 1) * interval_ms)), class |-> class,
                         declared_bytes |-> declared_bytes]]

\* C26: schedule_burst(q, now, count, interval_ms, class, declared_bytes)
\* appends exactly count entries with at = now + i * interval_ms for
\* i = 0..count-1, in increasing i, behind the entries already queued, which
\* it neither reorders nor removes; with count = 0 the queue is unchanged.
C26_BurstAppended ==
    did.op = "schedule_burst" =>
        /\ client.queue = did.had_queue
                              \o BurstOf(did.at, did.arg.count, did.arg.interval_ms,
                                         did.arg.class, did.arg.declared_bytes)
        /\ Len(client.queue) = Len(did.had_queue) + did.arg.count
        /\ did.arg.count = 0 => client.queue = did.had_queue

\* a burst of two entries ten milliseconds apart was appended behind entries
\* that are due later than its first one
C26_Witness ==
    /\ did.op = "schedule_burst"
    /\ did.arg.count = 2
    /\ did.arg.interval_ms = 10
    /\ did.had_queue # << >>
    /\ lt(did.at, did.had_queue[Len(did.had_queue)].at)
    /\ client.queue[Len(client.queue)].at = add(did.at, from_millis(10))

\* C25 as stated: after any sequence of burst commands (single send, burst,
\* burst profile) and drain steps the burst queue is ordered by at,
\* non-decreasing from head to tail, so that a drain step at the time now
\* leaves no queued entry with at <= now.
C25_QueueOrderedByAt ==
    /\ \A i \in 1..(Len(client.queue) - 1) :
          le(client.queue[i].at, client.queue[i + 1].at)
    /\ did.op = "send_scheduled_packets" =>
          \A i \in DOMAIN client.queue : lt(did.at, client.queue[i].at)

\* C24: right after StartContinuous the burst queue is empty and there is no
\* active profile; right after SetProfileSteady, SetProfileRamp or
\* SetProfileOscillation the burst queue is empty and there is no continuous
\* state; right after SetProfileBurst the queue holds the scheduled burst
\* (burst_count entries 2 ms apart from now on, behind what was queued) and
\* there is neither an active profile nor a continuous state.
C24_SendModeTransitions ==
    /\ did.op = "StartContinuous" =>
          /\ client.queue = << >>
          /\ client.active_profile = << >>
          /\ client.continuous_state # << >>
          /\ client.continuous_state[1].class = did.arg.class
    /\ did.op \in {"SetProfileSteady", "SetProfileRamp", "SetProfileOscillation"} =>
          /\ client.queue = << >>
          /\ client.continuous_state = << >>
          /\ client.active_profile # << >>
          /\ "SetProfile" \o client.active_profile[1].kind = did.op
    /\ did.op = "SetProfileBurst" =>
          /\ client.active_profile = << >>
          /\ client.continuous_state = << >>
          /\ client.queue # << >>
          /\ client.queue = did.had_queue
                               \o BurstOf(did.at, client.burst_count, 2, Background, 1200)

\* Duration::as_nanos, for the durations of less than two seconds
as_nanos(d) == d.secs * NANOS_PER_SEC + d.nanos

\* the numbers k >= 0 whose deadline next_send_at + k * interval is no later than now
DueBy(first, now) ==
    {k \in 0..(as_nanos(now) \div as_nanos(first.interval) + 1) :
        le(add(first.next_send_at, mul(first.interval, k)), now)}

\* C30: a pass of send_continuous_packets that ends at the time now has sent
\* exactly one packet for each deadline next_send_at + k * interval (k >= 0)
\* that is <= now, has advanced next_send_at by interval per packet, and ends
\* with next_send_at > now: no deadline is skipped after a pause and the
\* schedule is not re-based on the current time.
C30_ContinuousCatchesUp ==
    (did.op = "send_continuous_packets" /\ ~turns.running /\ turns.first # << >>) =>
        LET first == turns.first[1]
            due == DueBy(first, did.at)
        IN  /\ client.continuous_state # << >>
            /\ turns.emitted = Cardinality(due)
            /\ Len(did.sent) = turns.emitted
            /\ \A i \in DOMAIN did.sent :
                  /\ did.sent[i].class = first.class
                  /\ did.sent[i].declared_bytes = 1200
            /\ client.continuous_state[1].next_send_at =
                  add(first.next_send_at, mul(first.interval, turns.emitted))
            /\ client.continuous_state[1].interval = first.interval
            /\ lt(did.at, client.continuous_state[1].next_send_at)

----------------------------------------------------------------------------
(* The global counters, the analytics export and the removed lists *)

\* the global counters of the engine
counters == << total_packets, total_bytes, packets_by_class, bytes_by_class,
               route_packets, route_bytes >>

\* C35: total_packets is the number of on_data calls made so far (0 at the
\* start, one more with every on_data, also with one that panics at the wall
\* clock after it has counted the packet, unchanged by every other call) and
\* equals the sum of packets_by_class and the sum of route_packets;
\* total_bytes equals the sum of bytes_by_class and the sum of route_bytes;
\* none of the counters ever decreases, also when nodes or edges are removed.
C35_GlobalCountersAgree ==
    /\ total_packets = 0
    /\ total_bytes = 0
    /\ [](/\ total_packets = SumFn(packets_by_class, 0..3)
          /\ total_packets = SumFn(route_packets, 0..3)
          /\ total_bytes = SumFn(bytes_by_class, 0..3)
          /\ total_bytes = SumFn(route_bytes, 0..3))
    /\ [][/\ IF Entered("on_data")
             THEN /\ total_packets' = total_packets + 1
                  /\ total_bytes' = total_bytes + last'.pkt.declared_bytes
             ELSE UNCHANGED counters
          /\ total_packets' >= total_packets
          /\ total_bytes' >= total_bytes
          /\ \A i \in 0..3 :
                /\ packets_by_class'[i] >= packets_by_class[i]
                /\ bytes_by_class'[i] >= bytes_by_class[i]
                /\ route_packets'[i] >= route_packets[i]
                /\ route_bytes'[i] >= route_bytes[i]
        ]_vars

\* two packets were counted, and a node and its edges were removed after that
C35_Witness ==
    /\ total_packets = 2
    /\ last.op \in {"on_unregister", "cleanup_stale"}
    /\ last.had_nodes # DOMAIN nodes
    /\ last.had_edges # DOMAIN edges

\* C36: export_analytics changes no engine state: snapshot_seq, the pending
\* removed lists and every edge (its previous rates and window counters
\* included) are as before, so that an export_topology made next returns the
\* snapshot it would have returned without the export_analytics.
C36_ExportAnalyticsReadsOnly ==
    [][Called("export_analytics") =>
          /\ UNCHANGED engine
          /\ \A system_time \in HeldSystemTimes :
                export_topology_snapshot(Self, clock, system_time)'
                   = export_topology_snapshot(Self, clock, system_time)
      ]_vars

\* export_analytics was called while removed ids were pending and an edge had
\* packets in its window
C36_Witness ==
    /\ last.op = "export_analytics"
    /\ removed_nodes # << >>
    /\ \E key \in DOMAIN edges : edges[key].window_packets > 0
    /\ out.global_stats.total_packets > 0

\* C37 as stated: no export_topology snapshot lists the same node id in both
\* nodes and removed_nodes, or the same edge id in both edges and
\* removed_edges, whatever was removed and created again between two exports.
C37_ListedLiveOrRemoved ==
    last.op = "export_topology" =>
        /\ {e.node_id : e \in out.nodes} \cap Range(out.removed_nodes) = {}
        /\ {e.edge_id : e \in out.edges} \cap Range(out.removed_edges) = {}


----------------------------------------------------------------------------
(* Properties of the peers of the client *)

\* the peer a send with the destination domain of the state resolves to
Resolved(state) == destination_peer(state, state.dst_domain)

\* C40: in every reachable state of the client the peer list is non-empty,
\* the active index is an index into it and dst_domain is the domain of the
\* active peer; so a send resolves to the active peer and creates no peer:
\* every packet emitted goes to the peer that is active after the send, and
\* the sends leave the peer list as the command before them left it
C40_ActivePeerResolves ==
    /\ client.peers # << >>
    /\ client.active_peer_index \in 0..(Len(client.peers) - 1)
    /\ client.dst_domain = endpoint_domain_from_node_domain(active_peer(client)[1].domain)
    /\ Resolved(client).peer = active_peer(client)[1]
    /\ Resolved(client).state = client
    /\ \A i \in 1..Len(did.sent) : did.sent[i].dst_node_id = active_peer(client)[1].node_id

\* the peers of the client that have the node id
PeersOf(node_id) == {i \in 1..Len(client.peers) : client.peers[i].node_id = node_id}

\* the packets the edges to peers of the domain count, from sources the
\* server holds in src_domain
RECURSIVE RoutePackets(_, _, _)
RoutePackets(keys, src_domain, dst_domain) ==
    IF keys = {} THEN 0
    ELSE LET key == CHOOSE k \in keys : TRUE
         IN  (IF /\ nodes[key.src_node_id].domain = src_domain
                 /\ \E i \in PeersOf(key.dst_node_id) : client.peers[i].domain = dst_domain
              THEN edges[key].packets ELSE 0)
             + RoutePackets(keys \ {key}, src_domain, dst_domain)

\* C38: the server infers from the node id of every peer of the client the
\* domain of the peer; the node a data packet creates for a peer that was
\* not registered has the domain of the peer, and the packets to the peers
\* of a domain are counted on the route to that domain
C38_PeerDomainInferred ==
    /\ \A i \in 1..Len(client.peers) :
           infer_domain(client.peers[i].node_id) = client.peers[i].domain
    /\ \A node_id \in DOMAIN nodes : \A i \in PeersOf(node_id) :
           nodes[node_id].domain = client.peers[i].domain
    /\ \A src_domain \in NodeDomain, dst_domain \in NodeDomain :
           route_packets[route_index(src_domain, dst_domain)]
               = RoutePackets(DOMAIN edges, src_domain, dst_domain)

\* C39: the packets of the client arriving in the order sent, once each, no
\* edge has window_missing above 0 and no exported loss_rate_window is above 0
C39_NoLossOnEdges ==
    /\ \A key \in DOMAIN edges : edges[key].window_missing = 0
    /\ last.op = "export_topology" =>
           \A edge \in out.edges : edge.loss_rate_window = FZero

----------------------------------------------------------------------------
(* Properties of the sequence cursors of the client *)

\* the data packets the step of the client puts on the wire
Emitted ==
    IF did' = did THEN << >>
    ELSE IF did'.op = "send_continuous_packets" /\ turns.running
         THEN SubSeq(did'.sent, Len(did.sent) + 1, Len(did'.sent))
         ELSE did'.sent

\* the packets of the class among the first n of the sequence
OfClass(packets, class, n) == Cardinality({j \in 1..n : packets[j].class = class})

\* C34: every data packet carries the global cursor and the cursor of its
\* class as they are when it is sent, and both move on by 1 modulo 2^32
\* (2^SeqWidth in the model): the packets of a step carry consecutive global
\* and per-class numbers from the cursors on, the cursors end past the last
\* of them, and the global cursor is always the sum of the four class
\* cursors modulo 2^32
C34_CursorsAdvanceTogether ==
    /\ [](client.next_global_seq
             = SumFn(client.next_class_seq, TrafficClass) % U32Modulus)
    /\ [][LET packets == Emitted
          IN  /\ \A i \in 1..Len(packets) :
                    /\ packets[i].global_seq
                          = (client.next_global_seq + (i - 1)) % U32Modulus
                    /\ packets[i].class_seq
                          = (client.next_class_seq[packets[i].class]
                               + OfClass(packets, packets[i].class, i - 1)) % U32Modulus
              /\ client'.next_global_seq
                    = (client.next_global_seq + Len(packets)) % U32Modulus
              /\ \A class \in TrafficClass :
                    client'.next_class_seq[class]
                      = (client.next_class_seq[class]
                           + OfClass(packets, class, Len(packets))) % U32Modulus]_vars

\* packets of two classes were sent and the global cursor wrapped within a pass
C34_Witness ==
    /\ did.op = "send_continuous_packets"
    /\ client.next_class_seq[HealthCheck] = 1
    /\ \E i \in 1..(Len(did.sent) - 1) :
          /\ did.sent[i].class = Background
          /\ did.sent[i].global_seq = U32Modulus - 1
          /\ did.sent[i + 1].global_seq = 0
          /\ did.sent[i + 1].class_seq = did.sent[i].class_seq + 1

----------------------------------------------------------------------------
(* Properties of the traffic profiles of the client *)

\* the step is one iteration of send_profile_packets on an active profile
ProfileTurn ==
    /\ did'.op = "send_profile_packets"
    /\ wall' = wall
    /\ client.active_profile # << >>

\* the profile has a rate that is updated
Stepped(profile) == profile.kind \in {"Ramp", "Oscillation"}

\* the rate the profile sends at
RateOf(profile) == IF profile.kind = "Steady" THEN profile.rate ELSE profile.current_rate

\* C31: a pass of send_profile_packets at the time now ends with next_send_at
\* after now and, for Ramp and Oscillation, next_rate_update_at after now; an
\* iteration that finds the rate update due moves next_rate_update_at on by
\* the update interval, one that finds the send due sends a packet of the
\* class of the profile and moves next_send_at on by the interval of the
\* rate as it is after the rate update of the same iteration, and the pass
\* goes on exactly while a send was due
C31_ProfilePassCatchesUp ==
    /\ []((did.op = "send_profile_packets" /\ ~turns.running
              /\ client.active_profile # << >>)
           => /\ lt(did.at, client.active_profile[1].next_send_at)
              /\ Stepped(client.active_profile[1])
                    => lt(did.at, client.active_profile[1].next_rate_update_at))
    /\ [][ProfileTurn =>
            LET before == client.active_profile[1]
                after == client'.active_profile[1]
            IN  /\ client'.active_profile # << >>
                /\ after.kind = before.kind
                /\ Stepped(before) =>
                      after.next_rate_update_at
                        = IF le(before.next_rate_update_at, wall)
                          THEN add(before.next_rate_update_at, before.update_interval)
                          ELSE before.next_rate_update_at
                /\ IF le(before.next_send_at, wall)
                   THEN /\ turns'.running
                        /\ Len(did'.sent) = 1
                        /\ did'.sent[1].class = before.class
                        /\ did'.sent[1].declared_bytes = 1200
                        /\ after.next_send_at
                             = add(before.next_send_at, interval_from_rate(RateOf(after)))
                   ELSE /\ ~turns'.running
                        /\ did'.sent = << >>
                        /\ after.next_send_at = before.next_send_at]_vars

\* C32: a rate update of the ramp sets current_rate to current_rate + step,
\* or to min_rate when current_rate + step is above max_rate, nothing else
\* changes the rate, and min_rate <= current_rate <= max_rate always
C32_RampStaysInRange ==
    /\ [](\A i \in 1..Len(client.active_profile) :
             client.active_profile[i].kind = "Ramp" =>
                /\ client.active_profile[i].min_rate <= client.active_profile[i].current_rate
                /\ client.active_profile[i].current_rate <= client.active_profile[i].max_rate)
    /\ [][(ProfileTurn /\ client.active_profile[1].kind = "Ramp") =>
            LET before == client.active_profile[1]
                after == client'.active_profile[1]
            IN  after.current_rate
                  = IF lt(wall, before.next_rate_update_at)
                    THEN before.current_rate
                    ELSE IF before.current_rate + before.step > before.max_rate
                    THEN before.min_rate
                    ELSE before.current_rate + before.step]_vars

\* the ramp went up to max_rate and a rate update took it back to min_rate
C32_Witness ==
    /\ did.op = "send_profile_packets"
    /\ client.active_profile # << >>
    /\ client.active_profile[1].kind = "Ramp"
    /\ client.active_profile[1].current_rate = client.active_profile[1].min_rate
    /\ lt(from_secs(11), client.active_profile[1].next_rate_update_at)

\* C33: the rate of the oscillation is low_rate or high_rate, every rate
\* update switches it to the other of the two, nothing else changes it, it
\* starts at low_rate, and rising is true exactly when the rate is low_rate
C33_OscillationToggles ==
    /\ [](\A i \in 1..Len(client.active_profile) :
             client.active_profile[i].kind = "Oscillation" =>
                /\ client.active_profile[i].current_rate
                      \in {client.active_profile[i].low_rate, client.active_profile[i].high_rate}
                /\ client.active_profile[i].rising
                      <=> (client.active_profile[i].current_rate
                             = client.active_profile[i].low_rate))
    /\ [][(ProfileTurn /\ client.active_profile[1].kind = "Oscillation") =>
            LET before == client.active_profile[1]
                after == client'.active_profile[1]
            IN  IF lt(wall, before.next_rate_update_at)
                THEN after.current_rate = before.current_rate
                ELSE /\ after.current_rate # before.current_rate
                     /\ after.current_rate \in {before.low_rate, before.high_rate}]_vars
    /\ [][(did'.op = "SetProfileOscillation" /\ did' # did) =>
            client'.active_profile[1].current_rate = client'.active_profile[1].low_rate]_vars

\* the oscillation went to high_rate and came back to low_rate
C33_Witness ==
    /\ did.op = "send_profile_packets"
    /\ client.active_profile # << >>
    /\ client.active_profile[1].kind = "Oscillation"
    /\ client.active_profile[1].current_rate = client.active_profile[1].low_rate
    /\ client.active_profile[1].rising
    /\ lt(from_secs(2), client.active_profile[1].next_rate_update_at)

====
